---------------------------- MODULE Spec2Model ----------------------------
(***************************************************************************)
(* A model of the DFD rendering pipeline of threatmodel-for-aws-s3:        *)
(*                                                                         *)
(*   - the batch run of sync_and_render.py (main, process_single_version,  *)
(*     generate_variants_and_render, drawio_export), specification Spec;   *)
(*   - the variant tool threat_opacity_xml_creator.py (make_validation,    *)
(*     get_all_FCx_Tx_values, generate_FCx_files, generate_FCx_Ty_files),  *)
(*     specification ToolSpec;                                             *)
(*   - the codec write_decompressed_main and the tool's decompress,        *)
(*     specification NormSpec;                                             *)
(*   - one run of the pipeline over one source document, with the files    *)
(*     on disk, the virtual display and the dataset bucket (render.py and  *)
(*     sync_and_render.py), specification RunSpec.                         *)
(*                                                                         *)
(* drawio_export is the same text in render.py (lines 320-391) and in      *)
(* sync_and_render.py (lines 340-411); the batch run calls the latter.     *)
(***************************************************************************)
EXTENDS Integers, Sequences, FiniteSets, TLC

VARIABLES
    \* ---- sync_and_render.py ----
    mpc,        \* position of main()
    vi,         \* index of the (tm_id, version) pair the batch loop is at
    ppc,        \* position of process_single_version / generate_variants_and_render
    epc,        \* position of drawio_export
    attempt,    \* drawio_export: the loop variable `attempt`
    rcs,        \* drawio_export: return codes of the renderer invocations of this call
    outFile,    \* drawio_export: state of output_path on disk
    exc,        \* the exception in flight ("none" when there is none)
    queue,      \* generate_variants_and_render: documents still to be rendered
    outcome,    \* per version: what process_single_version did
    hard,       \* per version: drawio_export raised its failure while it was processed
    xvfb,       \* the virtual display process
    existing_complete,  \* main: versions s3_scan_existing_versions found complete
    force_rerender,     \* Config.force_rerender
    wedged,     \* drawio_export: the renderer was started and does not exit
    tool_rc,    \* per version: the exit status run_cmd got from the variant tool (-1: not run)
    rendered,   \* the versions for which the renderer was invoked
    \* ---- threat_opacity_xml_creator.py ----
    tpc,            \* position of the tool's main()
    soup,           \* the parsed source document: the children of <root>
    validate,       \* args.validate
    error_list,     \* make_validation: error_list
    fcx_tx_values,  \* main: fcx_tx_values, [FC |-> set, T |-> set]
    fc_files,       \* files written into --fc-dir, by tag value
    t_files,        \* files written into --threat-dir, by tag value
    created,        \* the file names written (and printed as 'Created ...'), in order
    exit_code,      \* exit status of the tool (-1 while it runs)
    \* ---- write_decompressed_main ----
    npc,            \* position of the run of write_decompressed_main
    src_xml,        \* the document read from src_xml
    dest_xml,       \* the document at dest_xml (<<>> when there is none)
    again_xml,      \* the document a second call writes, given dest_xml as its source
    \* ---- decompress (threat_opacity_xml_creator.py) ----
    decompressed,   \* the document src_xml once decompress has worked on it in place
    \* ---- one pipeline run over one source document (render.py, sync_and_render.py) ----
    run_mode,       \* which entry point runs: "main", "sync" or "direct"
    src_name,       \* src_xml.name
    runs,           \* which run of the workflow this is: "first" or "next"
    gpc,            \* position of the run
    xvfb_proc,      \* the Xvfb process: "absent", "running", "exited", "killed" or "lingering"
    stop_calls,     \* what stop_xvfb did, <<>> while it has not been called
    disk,           \* the files of the work and output directories, with their content
    tool_status,    \* exit status of the variant tool (-1: it has not completed)
    pending,        \* xml_list: the documents of the current group still to be rendered
    calls,          \* the calls of drawio_export, in order: the arguments, the paths
                    \* used, the disk before the call, whether the renderer wrote a
                    \* non-empty output_path during it and whether it has returned
    dpc,            \* position of the current call of drawio_export
    tries,          \* drawio_export: the loop variable `attempt` (0 outside the loop)
    combined,       \* drawio_export: `combined`, as its lines
    warned,         \* drawio_export: `filtered_tail`, which logger.warning was given
    raised_exc,     \* the exception in flight or raised, <<>> when there is none
    returned,       \* what generate_variants_and_render returned, <<>> before
    s3_objects,     \* the keys of the version in the dataset bucket
    processed,      \* what process_single_version returned ("pending" before)
    exit_status     \* what main returned (-1 before)

cfgVars   == <<existing_complete, force_rerender>>
batchVars == <<mpc, vi, ppc, epc, attempt, rcs, outFile, exc, queue, outcome, hard, xvfb,
               wedged, tool_rc, rendered, cfgVars>>
toolVars  == <<tpc, soup, validate, error_list, fcx_tx_values, fc_files, t_files,
               created, exit_code>>
normVars  == <<npc, src_xml, dest_xml, again_xml, decompressed>>
runVars   == <<run_mode, src_name, runs, gpc, xvfb_proc, stop_calls, disk, tool_status, pending,
               calls, dpc, tries, combined, warned, raised_exc, returned, s3_objects,
               processed, exit_status>>
vars      == <<batchVars, cfgVars, toolVars, normVars, runVars>>

(***************************************************************************)
(* Bounds of the model.                                                    *)
(***************************************************************************)
NumVersions == 2    \* (tm_id, version) pairs the API lists
MaxBatchObjects == 1    \* <object> elements of a source document of the batch run
MaxObjects  == 2    \* <object> elements of a source document

(***************************************************************************)
(*           write_decompressed_main (render.py, sync_and_render.py)       *)
(*                                                                         *)
(* A document is [decl, file_compressed, diagram]: whether the text starts *)
(* with an XML declaration, the compressed attribute of <mxfile>, and the  *)
(* first <diagram> (<<>> when there is none) with its compressed attribute *)
(* and its content, a list of items: an <mxGraphModel> element or a text.  *)
(* An optional value is <<>> (None, or an exception) or <<value>>.         *)
(*                                                                         *)
(* A text is a term that records how it was made: base64 of bytes; bytes   *)
(* are the UTF-8 of a text, the raw deflate of a text, or neither; a text  *)
(* is an XML text or the percent-encoding of one. Each decoder below undoes*)
(* its own encoding and fails or yields garbage on anything else, as the   *)
(* library function does.                                                  *)
(***************************************************************************)

\* The graphs of the model: one without and one with a '%' escape in a label
\* (value="50%25"); unquote turns the latter into another graph.
Graphs == {"plain", "percent"}

GraphXml(g)      == [enc |-> "xml", root |-> "mxGraphModel", graph |-> <<g>>, content |-> <<>>]
FileXml(content) == [enc |-> "xml", root |-> "mxfile", graph |-> <<>>, content |-> content]
OtherXml         == [enc |-> "xml", root |-> "other", graph |-> <<>>, content |-> <<>>]
Garbage          == [enc |-> "xml", root |-> "none", graph |-> <<>>, content |-> <<>>]

Pct(text)      == [enc |-> "pct", of |-> text]
Utf8(text)     == [enc |-> "utf8", of |-> text]
Deflated(text) == [enc |-> "deflate", of |-> text]
Noise          == [enc |-> "noise"]
B64(bytes)     == [enc |-> "b64", of |-> bytes]
NotB64         == [enc |-> "junk"]
Blank          == [enc |-> "blank"]

GraphItem(g) == [item |-> "graph", graph |-> <<g>>, text |-> <<>>]
TextItem(t)  == [item |-> "text", graph |-> <<>>, text |-> <<t>>]

\* base64.b64decode: raises on a text that is not base64 (incorrect padding)
b64decode(text) == IF text.enc = "b64" THEN <<text.of>> ELSE <<>>

\* zlib.decompress(bytes, -zlib.MAX_WBITS).decode("utf-8"): raises on bytes
\* that are not a raw deflate stream
zlib_decompress(bytes) == IF bytes.enc = "deflate" THEN <<bytes.of>> ELSE <<>>

\* urllib.parse.unquote of a graph's text: its %XX escapes are decoded
UnquoteGraph(g) == IF g = "percent" THEN "percent_unquoted" ELSE g

UnquoteItem(i) == IF i.item = "graph" THEN GraphItem(UnquoteGraph(i.graph[1])) ELSE i

\* urllib.parse.unquote: undoes a percent-encoding; in a text that was not
\* percent-encoded it decodes the %XX it finds (base64 text holds none)
unquote(text) ==
    IF text.enc = "pct" THEN text.of
    ELSE [text EXCEPT !.graph = [k \in 1..Len(@) |-> UnquoteGraph(@[k])],
                      !.content = [k \in 1..Len(@) |-> UnquoteItem(@[k])]]

\* bytes.decode("utf-8", errors="ignore"): never raises
decode_ignore(bytes) == IF bytes.enc = "utf8" THEN bytes.of ELSE Garbage

\* BS4(xml_text, "xml"): a text that is not XML parses to an empty document
ParseXml(text) == IF text.enc = "xml" THEN text ELSE Garbage

\* tag.find("mxGraphModel") on the content of a <diagram>
ContentGraph(content) ==
    LET graphs == SelectSeq(content, LAMBDA i : i.item = "graph")
    IN  IF graphs = <<>> THEN <<>> ELSE graphs[1].graph

\* (tag.text or "").strip(): <<>> when nothing is left
StrippedText(content) ==
    LET texts == SelectSeq(content, LAMBDA i : i.item = "text" /\ i.text[1].enc # "blank")
    IN  IF texts = <<>> THEN <<>> ELSE texts[1].text

\* inner.find("mxGraphModel") or inner.select_one("mxfile > diagram > mxGraphModel")
find_graph(inner) ==
    IF inner.root = "mxGraphModel" THEN inner.graph
    ELSE IF inner.root = "mxfile" THEN ContentGraph(inner.content)
    ELSE <<>>

\* _extract_graph, lines 265-286
extract_graph_NoNesting(xml_text) == find_graph(ParseXml(xml_text))
extract_graph(xml_text) ==
    LET inner == ParseXml(xml_text)
        graph == find_graph(inner)
    IN  IF graph # <<>> THEN graph
        ELSE IF inner.root # "mxfile" THEN <<>>
        ELSE LET inner_text == StrippedText(inner.content)
             IN  IF inner_text = <<>> THEN <<>>
                 ELSE LET dec2 == b64decode(inner_text[1])
                      IN  IF dec2 = <<>> THEN <<>>
                          ELSE LET z    == zlib_decompress(dec2[1])
                                   xml2 == IF z # <<>> THEN unquote(z[1])
                                                       ELSE decode_ignore(dec2[1])
                               IN  find_graph(ParseXml(xml2))

\* lines 288-302: deflate first, then the decoded bytes as plain XML
DecodeGraph(decoded_bytes) ==
    LET z     == zlib_decompress(decoded_bytes)
        graph == IF z # <<>> THEN extract_graph(unquote(z[1])) ELSE <<>>
    IN  IF graph # <<>> THEN graph ELSE extract_graph(decode_ignore(decoded_bytes))

\* lines 247-251 and 309-313: mxfile["compressed"] = "false",
\* del diagram_tag["compressed"]
NormalizeFlags_KeepsDiagramFlag(doc) == [doc EXCEPT !.file_compressed = "false"]
NormalizeFlags(doc) ==
    [doc EXCEPT !.file_compressed = "false", !.diagram[1].compressed = "absent"]

\* dest_xml.write_text(str(soup)): the text written starts with the XML
\* declaration, whether the source had one or not
Serialize(doc) == [doc EXCEPT !.decl = TRUE]

\* line 245: diagram_tag.find("mxGraphModel") is not None
HasGraph_Never(diagram_tag) == FALSE
HasGraph(diagram_tag) == ContentGraph(diagram_tag.content) # <<>>

Raised      == [raised |-> TRUE, dest |-> <<>>]
Wrote(doc)  == [raised |-> FALSE, dest |-> <<Serialize(doc)>>]

\* write_decompressed_main, lines 226-318: what the call does to dest_xml
\* (<<>>: nothing written) and whether it raises ValueError
write_decompressed_main_KeepsPayload(src) ==
    IF src.diagram = <<>> THEN Raised
    ELSE LET diagram_tag == src.diagram[1]
             enc_text    == StrippedText(diagram_tag.content)
             decoded     == IF enc_text = <<>> THEN <<>> ELSE b64decode(enc_text[1])
             graph       == IF decoded = <<>> THEN <<>> ELSE DecodeGraph(decoded[1])
         IN  IF HasGraph(diagram_tag) \/ graph = <<>>
               THEN Wrote(NormalizeFlags(src))
               ELSE Wrote(NormalizeFlags(
                        [src EXCEPT !.diagram[1].content = <<GraphItem(graph[1])>>]))
write_decompressed_main(src) ==
    IF src.diagram = <<>> THEN Raised
    ELSE LET diagram_tag == src.diagram[1]
         IN  IF HasGraph(diagram_tag) THEN Wrote(NormalizeFlags(src))
             ELSE LET enc_text == StrippedText(diagram_tag.content)
                  IN  IF enc_text = <<>> THEN Raised
                      ELSE LET decoded == b64decode(enc_text[1])
                           IN  IF decoded = <<>> THEN Raised
                               ELSE LET graph == DecodeGraph(decoded[1])
                                    IN  IF graph = <<>> THEN Raised
                                        ELSE Wrote(NormalizeFlags(
                                                 [src EXCEPT !.diagram[1].content =
                                                                 <<GraphItem(graph[1])>>]))

(* --------- decompress (threat_opacity_xml_creator.py, lines 16-118) ----- *)
(* _extract_graph of decompress (lines 41-62) is the text of the one above. *)

\* lines 75-79: the decoded text starts with '<' or holds '<mxGraphModel' or
\* '<mxfile'. The bytes of a deflate stream decode to no such text in the
\* model; where they would, _extract_graph finds no graph in them and the
\* code goes on to step 3 all the same.
looks_like_xml(as_text) == as_text.enc = "xml" /\ as_text.root # "none"

\* lines 84-91 and 104-110: the graph replaces the content of <diagram>, the
\* compression flags are normalised
EmbedGraph(doc, graph) ==
    NormalizeFlags([doc EXCEPT !.diagram[1].content = <<GraphItem(graph[1])>>])

\* decompress, lines 16-118: the document after the call; every other path
\* returns with the document as it was
decompress(original_soup) ==
    IF original_soup.diagram = <<>> THEN original_soup
    ELSE LET diagram_tag == original_soup.diagram[1]
         IN  IF HasGraph(diagram_tag) THEN original_soup
             ELSE LET enc_text == StrippedText(diagram_tag.content)
                  IN  IF enc_text = <<>> THEN original_soup
                      ELSE LET decoded_bytes == b64decode(enc_text[1])
                           IN  IF decoded_bytes = <<>> THEN original_soup
                               ELSE LET as_text == decode_ignore(decoded_bytes[1])
                                        plain   == IF looks_like_xml(as_text)
                                                     THEN extract_graph(as_text)
                                                     ELSE <<>>
                                        z       == zlib_decompress(decoded_bytes[1])
                                        graph   == IF z # <<>>
                                                     THEN extract_graph(unquote(z[1]))
                                                     ELSE <<>>
                                    IN  IF plain # <<>> THEN EmbedGraph(original_soup, plain)
                                        ELSE IF graph # <<>>
                                               THEN EmbedGraph(original_soup, graph)
                                               ELSE original_soup

(* ------------------------ the source documents ------------------------- *)

\* The two encodings of a text as the text of a <diagram>.
PlainForm(xml)    == B64(Utf8(xml))
DeflateForm(xml)  == B64(Deflated(Pct(xml)))

\* The contents of a <diagram> that hold graph g: embedded, encoded, encoded
\* in a nested file (one and two levels), deflated without percent-encoding,
\* and embedded next to a left-over encoded text.
ContentsOf(g) ==
    LET inner == { <<GraphItem(g)>>,
                   <<TextItem(PlainForm(GraphXml(g)))>>,
                   <<TextItem(DeflateForm(GraphXml(g)))>> }
    IN  inner
          \cup { <<TextItem(PlainForm(FileXml(c)))>> : c \in inner }
          \cup { <<TextItem(DeflateForm(FileXml(c)))>> : c \in inner }
          \cup { <<TextItem(B64(Deflated(GraphXml(g))))>>,
                 <<TextItem(PlainForm(GraphXml(g))), GraphItem(g)>>,
                 <<TextItem(PlainForm(FileXml(
                      <<TextItem(PlainForm(FileXml(
                           <<TextItem(PlainForm(GraphXml(g)))>>)))>>)))>> }

\* The contents that hold no graph.
ContentsWithoutGraph ==
    { <<>>,
      <<TextItem(Blank)>>,
      <<TextItem(NotB64)>>,
      <<TextItem(B64(Noise))>>,
      <<TextItem(PlainForm(OtherXml))>>,
      <<TextItem(DeflateForm(OtherXml))>>,
      <<TextItem(PlainForm(FileXml(<<>>)))>>,
      <<TextItem(PlainForm(FileXml(<<TextItem(NotB64)>>)))>> }

FlagValues == {"absent", "true", "false"}

SourceDocuments ==
    { [decl |-> d, file_compressed |-> f, diagram |-> <<[compressed |-> c, content |-> p]>>] :
         d \in BOOLEAN, f \in FlagValues, c \in FlagValues,
         p \in UNION {ContentsOf(g) : g \in Graphs} \cup ContentsWithoutGraph }
      \cup { [decl |-> d, file_compressed |-> f, diagram |-> <<>>] :
                d \in BOOLEAN, f \in FlagValues }

\* One call of write_decompressed_main(src_xml, dest_xml).
WriteMain ==
    /\ npc = "start"
    /\ LET r == write_decompressed_main(src_xml)
       IN  /\ dest_xml' = r.dest
           /\ npc' = IF r.raised THEN "raised" ELSE "written"
    /\ UNCHANGED <<src_xml, again_xml, decompressed, batchVars, toolVars, runVars>>

\* A second call, on the document the first one wrote.
WriteAgain ==
    /\ npc = "written"
    /\ LET r == write_decompressed_main(dest_xml[1])
       IN  /\ again_xml' = r.dest
           /\ npc' = IF r.raised THEN "raised_again" ELSE "rewritten"
    /\ UNCHANGED <<src_xml, dest_xml, decompressed, batchVars, toolVars, runVars>>

\* The variant tool's main, lines 388-395: the same source is parsed and
\* decompress works on it in place.
DecompressSource ==
    /\ npc # "off" /\ decompressed = <<>>
    /\ decompressed' = <<decompress(src_xml)>>
    /\ UNCHANGED <<npc, src_xml, dest_xml, again_xml, batchVars, toolVars, runVars>>

NormIdle ==
    /\ npc = "off"
    /\ src_xml = <<>>
    /\ dest_xml = <<>>
    /\ again_xml = <<>>
    /\ decompressed = <<>>

(***************************************************************************)
(*                 threat_opacity_xml_creator.py: variant tool             *)
(*                                                                         *)
(* Text that the code inspects character by character (the threat and      *)
(* feature_class attributes) is a sequence of one-character strings. An    *)
(* attribute of a tag is <<>> when the tag does not carry it (tag.get      *)
(* returns None) and <<text>> when it does. A style is kept as the list    *)
(* style.split(';') of its pieces, from which the string is recovered by   *)
(* joining with ';'.                                                       *)
(***************************************************************************)

\* OPACITY_PERCENT = 10
OPACITY_PERCENT == 10

DigitChars == {"0", "1", "2", "3", "4", "5", "6", "7", "8", "9"}
SpaceChars == {" "}

\* Python truthiness of tag.get(attr): neither None nor the empty string.
Truthy(opt) == opt # <<>> /\ opt[1] # <<>>

\* `(tag.get(attr) or '')`
OrEmpty(opt) == IF Truthy(opt) THEN opt[1] ELSE <<>>

RECURSIVE LStrip(_)
LStrip(s) == IF s # <<>> /\ Head(s) \in SpaceChars THEN LStrip(Tail(s)) ELSE s

RECURSIVE RStrip(_)
RStrip(s) ==
    IF s # <<>> /\ s[Len(s)] \in SpaceChars THEN RStrip(SubSeq(s, 1, Len(s) - 1)) ELSE s

\* str.strip()
Strip(s) == RStrip(LStrip(s))

\* `c in s` for a one-character c
HasChar(s, c) == \E i \in 1..Len(s) : s[i] = c

\* str.split(sep) for a one-character separator: the pieces between the
\* separators, empty pieces included; ''.split(sep) is [''].
RECURSIVE Split(_, _)
Split(s, sep) ==
    IF ~HasChar(s, sep)
      THEN <<s>>
      ELSE LET i == CHOOSE k \in 1..Len(s) :
                      s[k] = sep /\ \A j \in 1..(k - 1) : s[j] # sep
           IN  <<SubSeq(s, 1, i - 1)>> \o Split(SubSeq(s, i + 1, Len(s)), sep)

\* `lit in s` (substring)
HasSubstring(s, lit) ==
    \E i \in 1..(Len(s) - Len(lit) + 1) : SubSeq(s, i, i + Len(lit) - 1) = lit

\* map(f, list) and the list filtered by a non-empty strip
StripAll(list) == [i \in 1..Len(list) |-> Strip(list[i])]

SelectNonEmpty(list) == SelectSeq(list, LAMBDA x : x # <<>>)

\* `[x.strip() for x in text.split(',') if x.strip()]`
StrippedTokens(text) == SelectNonEmpty(StripAll(Split(text, ",")))

InList(x, list) == \E i \in 1..Len(list) : list[i] = x

txt_all  == <<"a", "l", "l">>
txt__all == <<"_", "a", "l", "l">>

(* ---------------- the regular expressions of make_validation ----------- *)
(* Each pattern is anchored (^...$) and used with search(); the texts of   *)
(* the model hold no line break, so $ is the end of the text.              *)

\* the literal `lit` stands at position i of s
LitAt(s, i, lit) ==
    /\ i >= 1
    /\ i + Len(lit) - 1 <= Len(s)
    /\ SubSeq(s, i, i + Len(lit) - 1) = lit

\* \d+ from position i: the positions right after one or more digits
DigitRunEnds(s, i) ==
    {j \in (i + 1)..(Len(s) + 1) : \A k \in i..(j - 1) : s[k] \in DigitChars}

\* FC\d+ from position i
FCnEnds(s, i) == IF LitAt(s, i, <<"F", "C">>) THEN DigitRunEnds(s, i + 2) ELSE {}

\* FCx_Ty_re = ^FC\d+_T\d+$
FCx_Ty_re(s) ==
    \E j \in FCnEnds(s, 1) :
        /\ LitAt(s, j, <<"_", "T">>)
        /\ (Len(s) + 1) \in DigitRunEnds(s, j + 2)

\* FCx_all_re = ^(FC\d+_)*all$
RECURSIVE FCx_all_from(_, _)
FCx_all_from(s, i) ==
    \/ (LitAt(s, i, txt_all) /\ i + 3 = Len(s) + 1)
    \/ \E j \in FCnEnds(s, i) : LitAt(s, j, <<"_">>) /\ FCx_all_from(s, j + 1)

FCx_all_re(s) == FCx_all_from(s, 1)

\* FCx_re = ^((,?FC\d+)|(,?all))+$
FCx_item_ends(s, i) ==
    LET starts == {i} \cup (IF LitAt(s, i, <<",">>) THEN {i + 1} ELSE {})
    IN  UNION {FCnEnds(s, k) \cup (IF LitAt(s, k, txt_all) THEN {k + 3} ELSE {})
                 : k \in starts}

RECURSIVE FCx_items_from(_, _)
FCx_items_from(s, i) ==
    \E j \in FCx_item_ends(s, i) : j = Len(s) + 1 \/ FCx_items_from(s, j)

FCx_re(s) == FCx_items_from(s, 1)

(* ----------------------------- the document ---------------------------- *)
(* soup is the sequence of the children of <root>: raw cells               *)
(* [kind |-> "mxCell", style] and annotated elements                       *)
(* [kind |-> "object", threat, feature_class, cells], cells being the      *)
(* styles of the <mxCell> tags nested in the <object>.                     *)

\* soup.select('object'), soup.select('root > object')
ObjectIndexes(doc) == {i \in 1..Len(doc) : doc[i].kind = "object"}

\* soup.select('root > mxCell')
CellIndexes(doc) == {i \in 1..Len(doc) : doc[i].kind = "mxCell"}

\* The items of a sequence of sequences, in order.
RECURSIVE Flatten(_)
Flatten(ss) == IF ss = <<>> THEN <<>> ELSE Head(ss) \o Flatten(Tail(ss))

\* make_validation, lines 140-146: the errors of one tag's threat attribute,
\* one for every entry of threat.strip().split(',') that matches neither
\* pattern.
ThreatErrors(tag) ==
    IF Truthy(tag.threat)
      THEN LET threat_list == Split(Strip(tag.threat[1]), ",")
           IN  SelectSeq([k \in 1..Len(threat_list) |->
                            [kind |-> "threat", value |-> tag.threat[1],
                             bad |-> ~FCx_Ty_re(threat_list[k]) /\ ~FCx_all_re(threat_list[k])]],
                         LAMBDA e : e.bad)
      ELSE <<>>

\* make_validation, lines 155-160: the error of one tag's feature_class.
FeatureClassErrors(tag) ==
    IF Truthy(tag.feature_class) /\ ~FCx_re(Strip(tag.feature_class[1]))
      THEN <<[kind |-> "feature_class", value |-> Strip(tag.feature_class[1]), bad |-> TRUE]>>
      ELSE <<>>

\* make_validation, lines 128-160: error_list when the two loops are done.
ObjectTags(doc) == SelectSeq(doc, LAMBDA e : e.kind = "object")

make_validation(doc) ==
    LET tags == ObjectTags(doc)
    IN  Flatten([i \in 1..Len(tags) |-> ThreatErrors(tags[i])])
          \o Flatten([i \in 1..Len(tags) |-> FeatureClassErrors(tags[i])])

\* FCx_do_hide, lines 167-191
ThreatPrefix(threat) == Split(threat, "_")[1]

FCx_do_hide_KeepsNothingByThreat(curr_fc_value, object_tag) ==
    LET feature_class == StrippedTokens(OrEmpty(object_tag.feature_class))
    IN  ~(InList(curr_fc_value, feature_class) \/ InList(txt_all, feature_class))
FCx_do_hide(curr_fc_value, object_tag) ==
    LET feature_class == StrippedTokens(OrEmpty(object_tag.feature_class))
        threat_list   == StrippedTokens(OrEmpty(object_tag.threat))
    IN  IF InList(curr_fc_value, feature_class) THEN FALSE
        ELSE IF InList(txt_all, feature_class) THEN FALSE
        ELSE ~ \E k \in 1..Len(threat_list) :
                  LET threat          == threat_list[k]
                      threat_fc_value == ThreatPrefix(threat)
                      fc_all          == threat_fc_value \o txt__all
                  IN  \/ threat = txt_all
                      \/ curr_fc_value = threat_fc_value
                      \/ fc_all = threat

\* FCx_Ty_do_hide, lines 193-215
FCx_Ty_do_hide_NoWildcards(curr_t_value, object_tag) ==
    IF ~Truthy(object_tag.threat) THEN TRUE
    ELSE ~InList(curr_t_value, StrippedTokens(object_tag.threat[1]))
FCx_Ty_do_hide(curr_t_value, object_tag) ==
    IF ~Truthy(object_tag.threat) THEN TRUE
    ELSE LET threat        == StrippedTokens(object_tag.threat[1])
             curr_fc_value == ThreatPrefix(curr_t_value)
             key2          == curr_fc_value \o txt__all
         IN  /\ ~InList(curr_t_value, threat)
             /\ ~InList(txt_all, threat)
             /\ ~InList(key2, threat)

\* The text 'textOpacity={0};opacity={0};'.format(OPACITY_PERCENT), split at ';'
OpacityPieces ==
    << "textOpacity=" \o ToString(OPACITY_PERCENT),
       "opacity=" \o ToString(OPACITY_PERCENT),
       "" >>

\* The concatenation a + b of two texts kept as their split(';') lists.
ConcatPieces(a, b) ==
    SubSeq(a, 1, Len(a) - 1) \o <<a[Len(a)] \o b[1]>> \o SubSeq(b, 2, Len(b))

\* make_tags_gray, lines 224-228, for one tag's style
Gray(style) ==
    IF style # <<>> /\ style[1] # <<"">>
      THEN <<ConcatPieces(style[1], <<"">> \o OpacityPieces)>>
      ELSE <<OpacityPieces>>

\* generate_FCx_files lines 251-264 and generate_FCx_Ty_files lines 286-299:
\* the copy of the document with the tags of mxcell_tags_to_hide made gray,
\* `hide` being the set of indexes of the objects that do_hide selects.
DropHidden(doc, hide) ==
    SelectSeq([i \in 1..Len(doc) |->
                 IF doc[i].kind = "mxCell"
                   THEN [doc[i] EXCEPT !.style = Gray(@)]
                   ELSE IF i \in hide THEN [doc[i] EXCEPT !.kind = "removed"] ELSE doc[i]],
              LAMBDA e : e.kind # "removed")
ObjectsOnly(doc, hide) ==
    [i \in 1..Len(doc) |->
        IF doc[i].kind = "object" /\ i \in hide
          THEN [doc[i] EXCEPT !.cells = [k \in 1..Len(@) |-> Gray(@[k])]]
          ELSE doc[i]]
GrayCopy(doc, hide) ==
    [i \in 1..Len(doc) |->
        IF doc[i].kind = "mxCell"
          THEN [doc[i] EXCEPT !.style = Gray(@)]
          ELSE IF i \in hide
                 THEN [doc[i] EXCEPT !.cells = [k \in 1..Len(@) |-> Gray(@[k])]]
                 ELSE doc[i]]

\* get_all_FCx_Tx_values, lines 314-330: the chunks of all object tags
TagChunks(tag) ==
    (IF Truthy(tag.threat) THEN StripAll(Split(tag.threat[1], ",")) ELSE <<>>)
      \o (IF Truthy(tag.feature_class)
            THEN StripAll(Split(tag.feature_class[1], ","))
            ELSE <<>>)

\* get_all_FCx_Tx_values, lines 332-348
get_all_FCx_Tx_values_KeepsAll(doc) ==
    LET tags   == ObjectTags(doc)
        values == Flatten([i \in 1..Len(tags) |-> TagChunks(tags[i])])
        vset   == {values[i] : i \in 1..Len(values)}
    IN  [T  |-> {v \in vset : HasChar(v, "_")},
         FC |-> {v \in vset : ~HasChar(v, "_")}]
get_all_FCx_Tx_values(doc) ==
    LET tags   == ObjectTags(doc)
        values == Flatten([i \in 1..Len(tags) |-> TagChunks(tags[i])])
        vset   == {values[i] : i \in 1..Len(values)}
    IN  [T  |-> {v \in vset : HasChar(v, "_")},
         FC |-> {v \in vset : ~HasChar(v, "_") /\ v # txt_all}]

\* `for v in <set>`: the items of a set in the order the loop meets them. The
\* order is the interpreter's; what the loops below build does not depend on
\* it but for the order of the writes.
RECURSIVE SetToSeq(_)
SetToSeq(S) ==
    IF S = {} THEN <<>>
    ELSE LET x == CHOOSE y \in S : TRUE IN <<x>> \o SetToSeq(S \ {x})

\* generate_FCx_files, lines 246-248: one pass of the loop over the T values
AddPrefix_NoMembershipTest(list, t_value) ==
    LET curr_fc_value == ThreatPrefix(t_value)
    IN  IF curr_fc_value # txt_all THEN Append(list, curr_fc_value) ELSE list
AddPrefix(list, t_value) ==
    LET curr_fc_value == ThreatPrefix(t_value)
    IN  IF ~InList(curr_fc_value, list) /\ curr_fc_value # txt_all
          THEN Append(list, curr_fc_value)
          ELSE list

RECURSIVE AddPrefixes(_, _)
AddPrefixes(list, t_values) ==
    IF t_values = <<>> THEN list
    ELSE AddPrefixes(AddPrefix(list, Head(t_values)), Tail(t_values))

\* generate_FCx_files, lines 242-248: fc_value_list
fc_value_list(values) == AddPrefixes(SetToSeq(values.FC), SetToSeq(values.T))

\* generate_FCx_Ty_files, lines 284-285: `if 'all' in t_value: continue`
SkipValue_Never(t_value) == FALSE
SkipValue(t_value) == HasSubstring(t_value, txt_all)

\* generate_FCx_Ty_files, lines 283-285: the T values a file is written for
t_value_list(values) == SelectSeq(SetToSeq(values.T), LAMBDA t : ~SkipValue(t))

\* main, line 391: prefix_service = src_filename.stem; the batch run names the
\* source <tm_id>_DFD.xml.
prefix_service == <<"S", "3", "_", "D", "F", "D">>

\* lines 267 and 302: dest_dir / f"{prefix_service}_{value}.xml"
output_filename(dir, value) ==
    [dir |-> dir, name |-> prefix_service \o <<"_">> \o value \o <<".", "x", "m", "l">>]

\* The items of a list, as a set.
Items(list) == {list[i] : i \in 1..Len(list)}

\* `soup = copy.deepcopy(original_soup)`, lines 251 and 286: original_soup once
\* the loop body has made the tags of its copy gray in place. The copy is a
\* structural clone, so the original is as it was.
OriginalAfter_Aliased(original_soup, copied) == copied
OriginalAfter(original_soup, copied) == original_soup

\* generate_FCx_files, lines 250-270: the loop over fc_value_list; every pass
\* copies original_soup, makes the selected tags of the copy gray and writes
\* the copy.
RECURSIVE WriteFCxFiles(_, _, _)
WriteFCxFiles(original_soup, list, files) ==
    IF list = <<>> THEN [original_soup |-> original_soup, files |-> files]
    ELSE LET fc_value == Head(list)
             copied == GrayCopy(original_soup,
                                {i \in ObjectIndexes(original_soup) :
                                   FCx_do_hide(fc_value, original_soup[i])})
         IN  WriteFCxFiles(OriginalAfter(original_soup, copied), Tail(list),
                           (fc_value :> copied) @@ files)

\* generate_FCx_Ty_files, lines 283-305: the same loop over the T values that
\* are not skipped.
RECURSIVE WriteFCxTyFiles(_, _, _)
WriteFCxTyFiles(original_soup, list, files) ==
    IF list = <<>> THEN [original_soup |-> original_soup, files |-> files]
    ELSE LET t_value == Head(list)
             copied == GrayCopy(original_soup,
                                {i \in ObjectIndexes(original_soup) :
                                   FCx_Ty_do_hide(t_value, original_soup[i])})
         IN  WriteFCxTyFiles(OriginalAfter(original_soup, copied), Tail(list),
                             (t_value :> copied) @@ files)

(* ------------------------- the inputs of the model --------------------- *)

txt_FC1 == <<"F", "C", "1">>
txt_FC2 == <<"F", "C", "2">>
txt_T1  == <<"_", "T", "1">>

\* The threat attributes the objects of the model's documents carry: none, a
\* single threat, wildcards, a list of a threat and a wildcard, and a
\* malformed value.
ThreatAttrs ==
    { <<>>,
      <<txt_FC1 \o txt_T1>>,                                  \* FC1_T1
      <<txt_FC2 \o txt__all>>,                                \* FC2_all
      <<txt_all>>,                                            \* all
      <<txt_FC2 \o txt_T1 \o <<",">> \o txt_FC1 \o txt__all>>,  \* FC2_T1,FC1_all
      <<<<"F", "C", "x">> \o txt_T1>> }                       \* FCx_T1

\* The feature_class attributes: none, one class, a list, the wildcard, and a
\* malformed value.
FeatureClassAttrs ==
    { <<>>,
      <<txt_FC1>>,                                            \* FC1
      <<txt_FC1 \o <<",">> \o txt_FC2>>,                       \* FC1,FC2
      <<txt_all>>,                                            \* all
      <<txt_FC1 \o txt_FC2>> }                                \* FC1FC2

\* An <object> wraps one <mxCell>, which carries the style.
ObjectTagsOfModel ==
    { [kind |-> "object", threat |-> t, feature_class |-> f,
       cells |-> <<<< <<"rounded=1", "">> >>>>] :
         t \in ThreatAttrs, f \in FeatureClassAttrs }

\* The two cells every draw.io graph starts with carry no style; a raw
\* connector carries one.
RawCells ==
    << [kind |-> "mxCell", style |-> <<>>],
       [kind |-> "mxCell", style |-> << <<"edgeStyle=none", "">> >>] >>

\* The documents of the model: the raw cells, then n annotated elements.
ObjectSeqs(n) == [1..n -> ObjectTagsOfModel]

\* The objects of the documents the pipeline hands to the tool: no tag, one
\* value, a list, and a malformed value, for either attribute.
BatchObjectTags ==
    { o \in ObjectTagsOfModel :
        /\ o.threat \in { <<>>,
                          <<txt_FC1 \o txt_T1>>,
                          <<txt_FC2 \o txt_T1 \o <<",">> \o txt_FC1 \o txt__all>>,
                          <<<<"F", "C", "x">> \o txt_T1>> }
        /\ o.feature_class \in { <<>>,
                                 <<txt_FC1>>,
                                 <<txt_FC1 \o <<",">> \o txt_FC2>>,
                                 <<txt_FC1 \o txt_FC2>> } }

BatchObjectSeqs(n) == [1..n -> BatchObjectTags]

NoFiles == <<>>

(* ------------------------------- main() -------------------------------- *)

\* main, lines 395-399: decompress leaves a document that already holds its
\* graph as it is (line 31); make_validation runs under --validate and exits
\* with status 1 when error_list is not empty (lines 162-165).
Validate ==
    /\ tpc = "start"
    /\ IF validate
         THEN /\ error_list' = make_validation(soup)
              /\ IF error_list' # <<>>
                   THEN tpc' = "exited" /\ exit_code' = 1
                   ELSE tpc' = "validated" /\ exit_code' = exit_code
         ELSE /\ tpc' = "validated"
              /\ UNCHANGED <<error_list, exit_code>>
    /\ UNCHANGED <<soup, validate, fcx_tx_values, fc_files, t_files, created, batchVars, normVars, runVars>>

\* main, line 402
Inventory ==
    /\ tpc = "validated"
    /\ fcx_tx_values' = get_all_FCx_Tx_values(soup)
    /\ tpc' = "inventoried"
    /\ UNCHANGED <<soup, validate, error_list, fc_files, t_files, created, exit_code,
                   batchVars, normVars, runVars>>

\* main, line 405: generate_FCx_files writes <stem>_<fc_value>.xml for every
\* value of fc_value_list.
GenerateFCxFiles ==
    /\ tpc = "inventoried"
    /\ LET list    == fc_value_list(fcx_tx_values)
           written == WriteFCxFiles(soup, list, NoFiles)
       IN  /\ fc_files' = written.files
           /\ soup' = written.original_soup
           /\ created' = created \o [k \in 1..Len(list) |-> output_filename("fc_dir", list[k])]
    /\ tpc' = "fc_written"
    /\ UNCHANGED <<validate, error_list, fcx_tx_values, t_files, exit_code, batchVars, normVars, runVars>>

\* main, line 408: generate_FCx_Ty_files writes <stem>_<t_value>.xml for every
\* T value that does not contain 'all'; then main returns.
GenerateFCxTyFiles ==
    /\ tpc = "fc_written"
    /\ LET list    == t_value_list(fcx_tx_values)
           written == WriteFCxTyFiles(soup, list, NoFiles)
       IN  /\ t_files' = written.files
           /\ soup' = written.original_soup
           /\ created' = created \o [k \in 1..Len(list) |-> output_filename("threat_dir", list[k])]
    /\ tpc' = "done"
    /\ exit_code' = 0
    /\ UNCHANGED <<validate, error_list, fcx_tx_values, fc_files, batchVars, normVars, runVars>>

(***************************************************************************)
(*                      sync_and_render.py: batch run                      *)
(***************************************************************************)

\* drawio_export: MAX_RETRIES = 3
MAX_RETRIES == 3

\* The renderer's exit status: 0, or anything else.
ExitCodes == {0, 1}

\* What one renderer invocation does to output_path.
FileEffects == {"none", "writes_empty", "writes_png"}

WriteEffect(file, eff) ==
    CASE eff = "none"         -> file
      [] eff = "writes_empty" -> "empty"
      [] eff = "writes_png"   -> "nonempty"

\* Every error drawio_export raises after the renderer ran is a plain
\* RuntimeError (raise RuntimeError(...) at lines 397, 401 and 404).
ExportError == "RuntimeError"

\* class DrawioExportHardFailure(RuntimeError); nothing in the file raises it.
HardFailure_AnyValueError == "ValueError"
HardFailure == "DrawioExportHardFailure"

\* `if attempt < MAX_RETRIES: continue`
RetryAllowed_OffByOne(a) == a <= MAX_RETRIES
RetryAllowed(a) == a < MAX_RETRIES

\* `if not output_path.exists(): raise` / `if size <= 0: raise`
OutputOk_NoSizeCheck(f) == f # "missing"
OutputOk(f) == f = "nonempty"

Versions == 1..NumVersions

\* process_single_version returns a value to the batch loop.
Return(val) ==
    /\ outcome' = [outcome EXCEPT ![vi] = val]
    /\ ppc' = "idle"
    /\ exc' = "none"
    /\ mpc' = IF val = "True" THEN "write_manifest" ELSE "loop"
    /\ vi' = IF val = "True" THEN vi ELSE vi + 1

\* An exception is raised inside the try block of process_single_version.
Raise(e) ==
    /\ exc' = e
    /\ ppc' = "handler"

\* main(): load_config .. start_xvfb (lines 816-833): the configuration is
\* read, S3 is scanned for complete versions, the display is started. Anything
\* raised here is caught by main's outer `except Exception` before the
\* display exists.
MainSetup ==
    /\ mpc = "start"
    /\ \E ok \in BOOLEAN, done \in SUBSET Versions, force \in BOOLEAN :
         IF ok THEN /\ mpc' = "loop"
                    /\ xvfb' = "running"
                    /\ exc' = "none"
                    /\ existing_complete' = done
                    /\ force_rerender' = force
               ELSE /\ mpc' = "fatal"
                    /\ xvfb' = xvfb
                    /\ exc' = "Exception"
                    /\ UNCHANGED cfgVars
    /\ UNCHANGED <<vi, ppc, epc, attempt, rcs, outFile, queue, outcome, hard, wedged, tool_rc, rendered, 
                   toolVars, normVars, runVars>>

\* process_single_version, lines 747-757: the version is complete in S3 and
\* is skipped; update_manifest_entry says whether the manifest changed.
SkipVersion ==
    /\ mpc = "loop" /\ vi \in Versions /\ ppc = "idle"
    /\ vi \in existing_complete /\ ~force_rerender
    /\ \E changed \in BOOLEAN : Return(IF changed THEN "True" ELSE "False")
    /\ UNCHANGED <<epc, attempt, rcs, outFile, queue, hard, xvfb, wedged, tool_rc, rendered, 
                   cfgVars, toolVars, normVars, runVars>>

\* process_single_version, lines 759-779: fetch the version, decode dfd.body
\* and write the source XML. A failed fetch and an empty body return False;
\* a body that is not base64 raises inside the try block.
PrepareVersion ==
    /\ mpc = "loop" /\ vi \in Versions /\ ppc = "idle"
    /\ ~(vi \in existing_complete /\ ~force_rerender)
    /\ \E r \in {"ok", "fetch_failed", "empty_body", "bad_base64"} :
         CASE r = "ok" ->
                /\ ppc' = "normalize"
                /\ mpc' = "in_psv"
                /\ UNCHANGED <<vi, exc, outcome>>
           [] r = "bad_base64" ->
                /\ Raise("ValueError")
                /\ mpc' = "in_psv"
                /\ UNCHANGED <<vi, outcome>>
           [] OTHER -> Return("False")
    /\ UNCHANGED <<epc, attempt, rcs, outFile, queue, hard, xvfb, wedged, tool_rc, rendered, 
                   cfgVars, toolVars, normVars, runVars>>

\* Whether write_decompressed_main raises, for each source document.
MainRaises == {write_decompressed_main(src).raised : src \in SourceDocuments}

\* generate_variants_and_render, line 433: write_decompressed_main on the
\* source XML of the version; its ValueError leaves the function.
Normalize ==
    /\ ppc = "normalize"
    /\ \E raised \in MainRaises :
         IF ~raised
           THEN ppc' = "tool" /\ exc' = exc
           ELSE Raise("ValueError")
    /\ UNCHANGED <<mpc, vi, epc, attempt, rcs, outFile, queue, outcome, hard, xvfb, wedged, tool_rc, rendered, 
                   cfgVars, toolVars, normVars, runVars>>

\* generate_variants_and_render, lines 444-455: run_cmd starts the variant
\* tool on the normalised document, with --validate, and waits for it.
RunTool ==
    /\ ppc = "tool" /\ tpc = "off"
    /\ tpc' = "start"
    /\ \E n \in 0..MaxBatchObjects : \E objs \in BatchObjectSeqs(n) : soup' = RawCells \o objs
    /\ validate' = TRUE
    /\ UNCHANGED <<error_list, fcx_tx_values, fc_files, t_files, created, exit_code>>
    /\ UNCHANGED <<batchVars, normVars, runVars>>

\* run_cmd, lines 140-142: subprocess.run(args, check=True) returns when the
\* tool has exited; a non-zero exit status raises CalledProcessError. On
\* success the main document and the *.xml files of fc_dir and threat_dir
\* (lines 457-471) are to be rendered.
ToolExits ==
    /\ ppc = "tool" /\ tpc \in {"exited", "done"}
    /\ tool_rc' = [tool_rc EXCEPT ![vi] = exit_code]
    /\ IF exit_code = 0
         THEN /\ ppc' = "render"
              /\ queue' = 1 + Cardinality(DOMAIN fc_files) + Cardinality(DOMAIN t_files)
              /\ exc' = exc
         ELSE /\ Raise("CalledProcessError")
              /\ queue' = queue
    /\ tpc' = "off"
    /\ soup' = <<>>
    /\ validate' = FALSE
    /\ error_list' = <<>>
    /\ fcx_tx_values' = [FC |-> {}, T |-> {}]
    /\ fc_files' = NoFiles
    /\ t_files' = NoFiles
    /\ created' = <<>>
    /\ exit_code' = -1
    /\ UNCHANGED <<mpc, vi, epc, attempt, rcs, outFile, outcome, hard, xvfb, wedged, rendered,
                   cfgVars, normVars, runVars>>

\* drawio_export, lines 340-369: the call begins. The caller has checked that
\* the input exists (line 460, and the glob of line 467); output_path lies in
\* the version's fresh work directory.
ExportBegin ==
    /\ ppc = "render" /\ epc = "idle" /\ queue > 0
    /\ epc' = "run"
    /\ attempt' = 1
    /\ rcs' = <<>>
    /\ outFile' = "missing"
    /\ UNCHANGED <<mpc, vi, ppc, exc, queue, outcome, hard, xvfb, wedged, tool_rc, rendered, 
                   cfgVars, toolVars, normVars, runVars>>

\* drawio_export, lines 370-398: one pass of the retry loop.
RunRenderer ==
    /\ epc = "run" /\ ~wedged
    /\ rendered' = rendered \cup {vi}
    /\ \E rc \in ExitCodes, eff \in FileEffects :
         /\ rcs' = Append(rcs, rc)
         /\ outFile' = WriteEffect(outFile, eff)
         /\ IF rc # 0
              THEN IF RetryAllowed(attempt)
                     THEN /\ attempt' = attempt + 1
                          /\ UNCHANGED <<epc, ppc, exc, hard>>
                     ELSE /\ epc' = "raised"
                          /\ Raise(ExportError)
                          /\ hard' = [hard EXCEPT ![vi] = TRUE]
                          /\ attempt' = attempt
              ELSE /\ epc' = "check"
                   /\ UNCHANGED <<attempt, ppc, exc, hard>>
    /\ UNCHANGED <<mpc, vi, queue, outcome, xvfb, wedged, tool_rc, 
                   cfgVars, toolVars, normVars, runVars>>

\* drawio_export, line 371: subprocess.run(cmd, text=True, capture_output=True)
\* waits for the renderer without a timeout; a renderer that does not exit
\* keeps the call, and the batch run, where they are.
RendererHangs ==
    /\ epc = "run" /\ ~wedged
    /\ wedged' = TRUE
    /\ rendered' = rendered \cup {vi}
    /\ UNCHANGED <<mpc, vi, ppc, epc, attempt, rcs, outFile, exc, queue, outcome, hard, xvfb,
                   tool_rc, cfgVars, toolVars, normVars, runVars>>

\* drawio_export, lines 400-411: the post-condition on output_path.
CheckOutput ==
    /\ epc = "check"
    /\ IF OutputOk(outFile)
         THEN /\ epc' = "returned"
              /\ UNCHANGED <<ppc, exc, hard>>
         ELSE /\ epc' = "raised"
              /\ Raise(ExportError)
              /\ hard' = [hard EXCEPT ![vi] = TRUE]
    /\ UNCHANGED <<mpc, vi, attempt, rcs, outFile, queue, outcome, xvfb, wedged, tool_rc, rendered, 
                   cfgVars, toolVars, normVars, runVars>>

\* generate_variants_and_render, lines 463-476: drawio_export returned; go on
\* with the next document, or return the artifacts.
ExportReturn ==
    /\ epc = "returned"
    /\ epc' = "idle"
    /\ queue' = queue - 1
    /\ ppc' = IF queue = 1 THEN "upload_images" ELSE ppc
    /\ attempt' = 0 /\ rcs' = <<>> /\ outFile' = "missing"   \* the call's locals are gone
    /\ UNCHANGED <<mpc, vi, exc, outcome, hard, xvfb, wedged, tool_rc, rendered, 
                   cfgVars, toolVars, normVars, runVars>>

\* process_single_version, lines 785-787: upload_images.
UploadImages ==
    /\ ppc = "upload_images"
    /\ \E ok \in BOOLEAN :
         IF ok THEN ppc' = "upload_json" /\ exc' = exc
               ELSE Raise("ClientError")
    /\ UNCHANGED <<mpc, vi, epc, attempt, rcs, outFile, queue, outcome, hard, xvfb, wedged, tool_rc, rendered, 
                   cfgVars, toolVars, normVars, runVars>>

\* process_single_version, lines 789-806: s3_write_json of threatmodel.json,
\* the hash, update_manifest_entry, return True.
UploadJson ==
    /\ ppc = "upload_json"
    /\ \E ok \in BOOLEAN :
         IF ok THEN /\ Return("True")
                    /\ UNCHANGED <<>>
               ELSE /\ Raise("ClientError")
                    /\ UNCHANGED <<mpc, vi, outcome>>
    /\ UNCHANGED <<epc, attempt, rcs, outFile, queue, hard, xvfb, wedged, tool_rc, rendered, 
                   cfgVars, toolVars, normVars, runVars>>

\* process_single_version, lines 807-812: the except clauses, in order.
Handler ==
    /\ ppc = "handler"
    /\ IF exc = HardFailure
         THEN \* `except DrawioExportHardFailure: raise`
              /\ outcome' = [outcome EXCEPT ![vi] = "raised"]
              /\ ppc' = "idle"
              /\ mpc' = "finally"
              /\ UNCHANGED <<vi, exc>>
         ELSE \* `except Exception: return False`
              Return("False")
    /\ epc' = "idle"
    /\ queue' = 0
    /\ attempt' = 0 /\ rcs' = <<>> /\ outFile' = "missing"   \* the call's locals are gone
    /\ UNCHANGED <<hard, xvfb, wedged, tool_rc, rendered, 
                   cfgVars, toolVars, normVars, runVars>>

\* main, lines 847-862: the manifest is written after a processed version.
WriteManifest ==
    /\ mpc = "write_manifest"
    /\ \E ok \in BOOLEAN :
         IF ok THEN /\ mpc' = "loop"
                    /\ vi' = vi + 1
                    /\ exc' = exc
               ELSE /\ mpc' = "finally"
                    /\ vi' = vi
                    /\ exc' = "ClientError"
    /\ UNCHANGED <<ppc, epc, attempt, rcs, outFile, queue, outcome, hard, xvfb, wedged, tool_rc, rendered, 
                   cfgVars, toolVars, normVars, runVars>>

\* main, lines 836-837: the loops are exhausted.
LoopEnd ==
    /\ mpc = "loop" /\ vi = NumVersions + 1
    /\ mpc' = "finally"
    /\ UNCHANGED <<vi, ppc, epc, attempt, rcs, outFile, exc, queue, outcome, hard, xvfb, wedged, tool_rc, rendered, 
                   cfgVars, toolVars, normVars, runVars>>

\* main, lines 863-892: `finally: stop_xvfb(xvfb_proc)`, then either the
\* exception reaches the outer handler (return 1) or the final manifest is
\* written (return 0, or return 1 when that write raises).
Finally ==
    /\ mpc = "finally"
    /\ xvfb' = "stopped"
    /\ IF exc # "none"
         THEN mpc' = "fatal" /\ exc' = exc
         ELSE \E ok \in BOOLEAN :
                IF ok THEN mpc' = "done" /\ exc' = exc
                      ELSE mpc' = "fatal" /\ exc' = "ClientError"
    /\ UNCHANGED <<vi, ppc, epc, attempt, rcs, outFile, queue, outcome, hard, wedged, tool_rc, rendered, 
                   cfgVars, toolVars, normVars, runVars>>

BatchInit ==
    /\ mpc = "start"
    /\ vi = 1
    /\ ppc = "idle"
    /\ epc = "idle"
    /\ attempt = 0
    /\ rcs = <<>>
    /\ outFile = "missing"
    /\ exc = "none"
    /\ queue = 0
    /\ outcome = [v \in Versions |-> "pending"]
    /\ hard = [v \in Versions |-> FALSE]
    /\ xvfb = "absent"
    /\ existing_complete = {}
    /\ force_rerender = FALSE
    /\ wedged = FALSE
    /\ tool_rc = [v \in Versions |-> -1]
    /\ rendered = {}

BatchNext ==
    \/ MainSetup
    \/ SkipVersion
    \/ PrepareVersion
    \/ Normalize
    \/ RunTool
    \/ ToolExits
    \/ ExportBegin
    \/ RunRenderer
    \/ RendererHangs
    \/ CheckOutput
    \/ ExportReturn
    \/ UploadImages
    \/ UploadJson
    \/ Handler
    \/ WriteManifest
    \/ LoopEnd
    \/ Finally

(***************************************************************************)
(*      One pipeline run over one source document (specification RunSpec)  *)
(*                                                                         *)
(* The run is render.py's main() ("main"), sync_and_render.py's main() with*)
(* one version to process ("sync"), or a call of                           *)
(* generate_variants_and_render(src_xml, out_dir, manage_xvfb=True)        *)
(* ("direct"). generate_variants_and_render, drawio_export, start_xvfb and *)
(* stop_xvfb are the same text in both files; the line numbers below are   *)
(* render.py's unless sync_and_render.py is named.                         *)
(*                                                                         *)
(* A file is [dir, name], the name a sequence of characters; disk maps the *)
(* files that exist to their content. A line of renderer output is         *)
(* [noise, text], noise telling whether FILTER_PATTERNS matches it.        *)
(***************************************************************************)

\* drawio_export(inp_main, out_png_main, width=1500), line 447
MAIN_WIDTH == 1500

\* drawio_export(xml, out_png, width=1200), line 455
VARIANT_WIDTH == 1200

\* filtered_tail: [-2000:], line 366
TAIL_CHARS == 2000

\* stop_xvfb: proc.wait(timeout=5), line 162
XVFB_GRACE_S == 5

ext_xml    == <<".", "x", "m", "l">>
ext_png    == <<".", "p", "n", "g">>
ext_drawio == <<".", "d", "r", "a", "w", "i", "o">>
ext_DRAWIO == <<".", "D", "R", "A", "W", "I", "O">>

File(dir, name) == [dir |-> dir, name |-> name]

\* The characters of the file names of the model, by code point.
CodePointOrder ==
    << ".", "0", "1", "2", "3", "4", "5", "6", "7", "8", "9",
       "A", "C", "D", "F", "I", "O", "R", "S", "T", "W", "_",
       "a", "d", "g", "i", "l", "m", "n", "o", "p", "r", "w", "x" >>

ord(c) == CHOOSE i \in 1..Len(CodePointOrder) : CodePointOrder[i] = c

\* a < b for two strings
RECURSIVE LexLess(_, _)
LexLess(a, b) ==
    IF a = <<>> THEN b # <<>>
    ELSE IF b = <<>> THEN FALSE
    ELSE IF Head(a) = Head(b) THEN LexLess(Tail(a), Tail(b))
    ELSE ord(Head(a)) < ord(Head(b))

\* sorted(<paths of one directory>): ascending by name
RECURSIVE sorted_Descending(_)
sorted_Descending(S) ==
    IF S = {} THEN <<>>
    ELSE LET m == CHOOSE x \in S : \A y \in S \ {x} : LexLess(y.name, x.name)
         IN  <<m>> \o sorted_Descending(S \ {m})
RECURSIVE sorted(_)
sorted(S) ==
    IF S = {} THEN <<>>
    ELSE LET m == CHOOSE x \in S : \A y \in S \ {x} : LexLess(x.name, y.name)
         IN  <<m>> \o sorted(S \ {m})

\* str.lower() on the letters of the names of the model
UpperChars == <<"A", "C", "D", "F", "I", "O", "R", "S", "T", "W">>
LowerChars == <<"a", "c", "d", "f", "i", "o", "r", "s", "t", "w">>

lower(s) ==
    [k \in 1..Len(s) |->
        IF \E u \in 1..Len(UpperChars) : UpperChars[u] = s[k]
          THEN LowerChars[CHOOSE u \in 1..Len(UpperChars) : UpperChars[u] = s[k]]
          ELSE s[k]]

\* Path.suffix, Path.stem, Path.with_suffix for a name that holds a dot
LastDot(name) ==
    CHOOSE k \in 1..Len(name) :
        name[k] = "." /\ \A j \in (k + 1)..Len(name) : name[j] # "."

suffix(name) == SubSeq(name, LastDot(name), Len(name))

stem(name) == SubSeq(name, 1, LastDot(name) - 1)

with_suffix(name, ext) == stem(name) \o ext

\* str.endswith, str.startswith
EndsWith(s, t) == Len(s) >= Len(t) /\ SubSeq(s, Len(s) - Len(t) + 1, Len(s)) = t

StartsWith(s, t) == Len(s) >= Len(t) /\ SubSeq(s, 1, Len(t)) = t

\* dir.glob("*.xml"), dir.glob("*.png")
glob(d, dir, ext) == {f \in DOMAIN d : f.dir = dir /\ EndsWith(f.name, ext)}

Put(d, f, content) == (f :> content) @@ d

Remove(d, files) == [f \in DOMAIN d \ files |-> d[f]]

\* The names src_xml can have: main() and process_single_version build a
\* name that ends with _DFD.xml (render.py line 104, sync_and_render.py line
\* 778); a caller of generate_variants_and_render passes any name.
SrcNames(mode) ==
    IF mode = "direct"
      THEN {prefix_service \o ext_xml, prefix_service \o ext_DRAWIO}
      ELSE {prefix_service \o ext_xml}

\* Files an earlier run can have left: variant documents of values the
\* source no longer carries, and images.
StaleFiles ==
    { File("fc_dir", prefix_service \o <<"_", "F", "C", "1", "0">> \o ext_xml),
      File("threat_dir", prefix_service \o <<"_", "F", "C", "9", "_", "T", "1">> \o ext_xml),
      File("out_dir", prefix_service \o ext_png) }

OldContent(f) == IF f.dir = "out_dir" THEN "old_png" ELSE "old_xml"

\* main_dir / src_xml.name and out_dir / f"{xml.stem}.png"
MainFile == File("main_dir", src_name)

OutPng(xml) == File("out_dir", stem(xml.name) \o ext_png)

\* generate_variants_and_render is called with manage_xvfb=True only in a
\* direct call; both mains pass False (line 501) or nothing.
manage_xvfb == run_mode = "direct"

\* drawio_export, line 329: input_path.suffix.lower() != ".drawio"
NeedsCopy_Never(name) == FALSE
NeedsCopy(name) == lower(suffix(name)) # ext_drawio

\* The output of one renderer invocation, as combined.splitlines().
NoiseLine == [noise |-> TRUE, text |-> <<"b", "u", "s">>]
ErrorLine == [noise |-> FALSE, text |-> <<"E", "1">>]

RendererOutputs == { <<NoiseLine>>, <<NoiseLine, ErrorLine>> }

\* "\n".join(lines)
RECURSIVE JoinLines(_)
JoinLines(lines) ==
    IF lines = <<>> THEN <<>>
    ELSE IF Len(lines) = 1 THEN lines[1].text
    ELSE lines[1].text \o <<"\n">> \o JoinLines(Tail(lines))

\* lines 364-366: the lines FILTER_PATTERNS does not match, joined, [-2000:]
filtered_tail(lines) ==
    LET text == JoinLines(SelectSeq(lines, LAMBDA ln : ~ln.noise))
    IN  IF Len(text) > TAIL_CHARS
          THEN SubSeq(text, Len(text) - TAIL_CHARS + 1, Len(text))
          ELSE text

\* The exceptions of the run: the type, what the message says, the path it
\* names and the renderer output it carries.
Exc(type, what) == [type |-> type, what |-> what, path |-> <<>>, output |-> <<>>]

\* line 377: raise RuntimeError(f"drawio export failed after {MAX_RETRIES}
\* attempts for {input_path}")
ExportFailed(input_path) ==
    [type |-> "RuntimeError", what |-> "export failed after MAX_RETRIES attempts",
     path |-> <<input_path>>, output |-> <<>>]

\* lines 381 and 384
NoOutput(output_path) ==
    [type |-> "RuntimeError", what |-> "export did not produce expected file",
     path |-> <<output_path>>, output |-> <<>>]

EmptyOutput(output_path) ==
    [type |-> "RuntimeError", what |-> "export produced empty file",
     path |-> <<output_path>>, output |-> <<>>]

\* What one renderer invocation does to output_path.
RendererWrites(d, output_path, eff) ==
    CASE eff = "none"         -> d
      [] eff = "writes_empty" -> Put(d, output_path, "empty")
      [] eff = "writes_png"   -> Put(d, output_path, "png")

\* lines 380-384: output_path.exists() and st_size > 0
OutputExists(d, output_path) == output_path \in DOMAIN d

OutputHasSize(d, output_path) == d[output_path] # "empty"

\* stop_xvfb, lines 159-167. How the process reacts is the input: terminate
\* or kill may raise, and the process exits exit_delay seconds after the
\* terminate signal.
StopBehaviours ==
    [terminate_raises : BOOLEAN, exit_delay : {1, XVFB_GRACE_S + 1}, kill_raises : BOOLEAN]

Killed(b) == IF b.kill_raises THEN "lingering" ELSE "killed"

stop_xvfb_KillUnguarded(b) ==
    IF b.terminate_raises
      THEN [did |-> <<"terminate", "kill">>, waited |-> 0,
            raised |-> b.kill_raises, proc |-> Killed(b)]
    ELSE IF b.exit_delay <= XVFB_GRACE_S
      THEN [did |-> <<"terminate", "wait">>, waited |-> b.exit_delay,
            raised |-> FALSE, proc |-> "exited"]
    ELSE [did |-> <<"terminate", "wait", "kill">>, waited |-> XVFB_GRACE_S,
          raised |-> b.kill_raises, proc |-> Killed(b)]
stop_xvfb(b) ==
    IF b.terminate_raises
      THEN [did |-> <<"terminate", "kill">>, waited |-> 0,
            raised |-> FALSE, proc |-> Killed(b)]
    ELSE IF b.exit_delay <= XVFB_GRACE_S
      THEN [did |-> <<"terminate", "wait">>, waited |-> b.exit_delay,
            raised |-> FALSE, proc |-> "exited"]
    ELSE [did |-> <<"terminate", "wait", "kill">>, waited |-> XVFB_GRACE_S,
          raised |-> FALSE, proc |-> Killed(b)]

(* ----------------------- the dataset bucket ---------------------------- *)
(* A key is kept as its tail, the part after <prefix>/<tm_id>/<ver>/.      *)

txt_img == <<"i", "m", "g", "/">>

txt_threatmodel_json ==
    <<"t", "h", "r", "e", "a", "t", "m", "o", "d", "e", "l", ".", "j", "s", "o", "n">>

\* upload_images, sync_and_render.py lines 485-486: img/<name with - for _>
dashed_name(name) == [k \in 1..Len(name) |-> IF name[k] = "_" THEN "-" ELSE name[k]]

ImageKey(f) == txt_img \o dashed_name(f.name)

\* tail.lower().endswith(("_dfd.png", "-dfd.png"))
EndsWithDfdPng(tail) ==
    \/ EndsWith(lower(tail), <<"_", "d", "f", "d">> \o ext_png)
    \/ EndsWith(lower(tail), <<"-", "d", "f", "d">> \o ext_png)

\* s3_scan_existing_versions, sync_and_render.py lines 498-538, for the keys
\* of one version: whether the version is in the set returned
s3_scan_existing_versions_NoJson(keys) ==
    /\ \E tail \in keys : StartsWith(tail, txt_img) /\ EndsWithDfdPng(tail)
    /\ \E tail \in keys : /\ StartsWith(tail, txt_img)
                          /\ EndsWith(lower(tail), ext_png)
                          /\ ~EndsWithDfdPng(tail)
s3_scan_existing_versions(keys) ==
    LET has_json     == txt_threatmodel_json \in keys
        has_main_dfd == \E tail \in keys \ {txt_threatmodel_json} :
                            StartsWith(tail, txt_img) /\ EndsWithDfdPng(tail)
        pngs         == Cardinality({tail \in keys \ {txt_threatmodel_json} :
                                       /\ StartsWith(tail, txt_img)
                                       /\ EndsWith(lower(tail), ext_png)
                                       /\ ~EndsWithDfdPng(tail)})
    IN  has_json /\ has_main_dfd /\ pngs > 0

(* ------------------------------ the run -------------------------------- *)

runRest == <<batchVars, toolVars, normVars>>

\* The frame of the batch variables other than cfgVars.
batchRest == <<mpc, vi, ppc, epc, attempt, rcs, outFile, exc, queue, outcome, hard, xvfb,
               wedged, tool_rc, rendered>>

\* The version the run of sync_and_render.py has to process.
TheVersion == 1

\* main up to start_xvfb: render.py lines 483-496 (clean_img_dir unlinks the
\* files of the output directory), sync_and_render.py lines 817-829 (the
\* configuration is loaded and the bucket scanned). What is raised here
\* reaches `except Exception` before the display exists.
RunPrepare ==
    /\ gpc = "start"
    /\ \E ok \in BOOLEAN, force \in BOOLEAN :
         IF ok THEN /\ gpc' = "start_xvfb"
                    /\ disk' = IF run_mode = "main"
                                 THEN Remove(disk, {f \in DOMAIN disk : f.dir = "out_dir"})
                                 ELSE disk
                    /\ exit_status' = exit_status
                    /\ IF run_mode = "sync"
                         THEN /\ existing_complete' =
                                    IF s3_scan_existing_versions(s3_objects)
                                      THEN {TheVersion} ELSE {}
                              /\ force_rerender' = force
                         ELSE UNCHANGED cfgVars
               ELSE /\ gpc' = "exit"
                    /\ disk' = disk
                    /\ exit_status' = 1
                    /\ UNCHANGED cfgVars
    /\ UNCHANGED <<run_mode, src_name, runs, xvfb_proc, stop_calls, tool_status, pending, calls,
                   dpc, tries, combined, warned, raised_exc, returned, s3_objects, processed,
                   batchRest, toolVars, normVars>>

\* main: xvfb_proc = start_xvfb() (render.py line 498, sync_and_render.py
\* line 832)
RunStartXvfb ==
    /\ gpc = "start_xvfb"
    /\ xvfb_proc' = "running"
    /\ gpc' = IF run_mode = "sync" THEN "version" ELSE "gvr"
    /\ UNCHANGED <<run_mode, src_name, runs, stop_calls, disk, tool_status, pending, calls, dpc, tries,
                   combined, warned, raised_exc, returned, s3_objects, processed, exit_status,
                   runRest>>

\* generate_variants_and_render, lines 404-416: write_decompressed_main
\* writes main_dir / src_xml.name; its ValueError leaves the function, which
\* has not reached its try block.
GvrNormalize ==
    /\ gpc = "gvr"
    /\ \E raised \in MainRaises :
         IF raised
           THEN /\ raised_exc' = <<Exc("ValueError", "Failed to process main XML")>>
                /\ gpc' = "gvr_left"
                /\ disk' = disk
           ELSE /\ disk' = Put(disk, MainFile, "main_xml")
                /\ gpc' = "gvr_xvfb"
                /\ raised_exc' = raised_exc
    /\ UNCHANGED <<run_mode, src_name, runs, xvfb_proc, stop_calls, tool_status, pending, calls, dpc,
                   tries, combined, warned, returned, s3_objects, processed, exit_status,
                   runRest>>

\* line 418: xvfb_proc = start_xvfb() if manage_xvfb else None
GvrStartXvfb ==
    /\ gpc = "gvr_xvfb"
    /\ xvfb_proc' = IF manage_xvfb THEN "running" ELSE xvfb_proc
    /\ gpc' = "tool"
    /\ UNCHANGED <<run_mode, src_name, runs, stop_calls, disk, tool_status, pending, calls, dpc, tries,
                   combined, warned, raised_exc, returned, s3_objects, processed, exit_status,
                   runRest>>

\* lines 428-439: run_cmd runs the variant tool with --validate on the main
\* document and waits for it; the tool exits with status 1 on a validation
\* error and otherwise writes its files into fc_dir and threat_dir. ToolRuns
\* is what it does, for each document of the batch run.
ToolRun(doc) ==
    LET values == get_all_FCx_Tx_values(doc)
    IN  IF make_validation(doc) # <<>>
          THEN [status |-> 1, wrote |-> {}]
          ELSE [status |-> 0,
                wrote  |-> {output_filename("fc_dir", v) : v \in Items(fc_value_list(values))}
                             \cup {output_filename("threat_dir", v) :
                                     v \in Items(t_value_list(values))}]

ToolRuns ==
    {ToolRun(RawCells \o objs) : objs \in UNION {BatchObjectSeqs(n) : n \in 0..MaxBatchObjects}}

GvrRunTool ==
    /\ gpc = "tool"
    /\ \E ran \in ToolRuns :
         IF ran.status # 0
           THEN /\ tool_status' = ran.status
                /\ raised_exc' = <<Exc("CalledProcessError", "non-zero exit status")>>
                /\ gpc' = "gvr_finally"
                /\ disk' = disk
           ELSE /\ tool_status' = ran.status
                /\ raised_exc' = raised_exc
                /\ gpc' = "render_main"
                /\ disk' = [f \in DOMAIN disk \cup ran.wrote |->
                              IF f \in ran.wrote THEN "variant_xml" ELSE disk[f]]
    /\ UNCHANGED <<run_mode, src_name, runs, xvfb_proc, stop_calls, pending, calls, dpc, tries,
                   combined, warned, returned, s3_objects, processed, exit_status, runRest>>

\* The document the next call of drawio_export is for, and its width.
NextInput == IF gpc = "render_main" THEN MainFile ELSE Head(pending)

NextWidth == IF gpc = "render_main" THEN MAIN_WIDTH ELSE VARIANT_WIDTH

\* drawio_export, lines 320-349: the call begins; a document whose suffix is
\* not .drawio is copied to <stem>.drawio and the copy is what the renderer
\* is given.
ExportCall ==
    /\ gpc \in {"render_main", "render_fc", "render_threat"} /\ dpc = "idle"
    /\ gpc = "render_main" \/ pending # <<>>
    /\ LET input_path == NextInput
           temp_copy  == File(input_path.dir, with_suffix(input_path.name, ext_drawio))
           copies     == NeedsCopy(input_path.name)
       IN  /\ disk' = IF copies THEN Put(disk, temp_copy, disk[input_path]) ELSE disk
           /\ calls' = Append(calls,
                              [input_path  |-> input_path,
                               inp         |-> IF copies THEN temp_copy ELSE input_path,
                               temp_copy   |-> IF copies THEN <<temp_copy>> ELSE <<>>,
                               output_path |-> OutPng(input_path),
                               width       |-> NextWidth,
                               before      |-> disk,
                               wrote       |-> FALSE,
                               done        |-> FALSE])
    /\ dpc' = "run"
    /\ tries' = 1
    /\ UNCHANGED <<run_mode, src_name, runs, gpc, xvfb_proc, stop_calls, tool_status, pending, combined,
                   warned, raised_exc, returned, s3_objects, processed, exit_status, runRest>>

ThisCall == calls[Len(calls)]

\* lines 350-378: one pass of the retry loop
RendererRuns ==
    /\ dpc = "run"
    /\ \E rc \in ExitCodes, eff \in FileEffects, out \in RendererOutputs :
         /\ combined' = out
         /\ disk' = RendererWrites(disk, ThisCall.output_path, eff)
         /\ calls' = [calls EXCEPT ![Len(calls)].wrote = @ \/ eff = "writes_png"]
         /\ IF rc # 0
              THEN /\ warned' = filtered_tail(out)
                   /\ IF RetryAllowed(tries)
                        THEN /\ tries' = tries + 1
                             /\ UNCHANGED <<dpc, gpc, raised_exc>>
                        ELSE /\ raised_exc' = <<ExportFailed(ThisCall.input_path)>>
                             /\ dpc' = "idle"
                             /\ gpc' = "gvr_finally"
                             /\ tries' = tries
              ELSE /\ dpc' = "check"
                   /\ UNCHANGED <<warned, tries, gpc, raised_exc>>
    /\ UNCHANGED <<run_mode, src_name, runs, xvfb_proc, stop_calls, tool_status, pending, returned,
                   s3_objects, processed, exit_status, runRest>>

\* lines 380-391: the check of output_path, then the temporary copy is
\* unlinked and the call returns, its local variables gone; lines 450-455: the loops go on with the
\* next document, xml_list being sorted(sub.glob("*.xml")).
ExportCheck ==
    /\ dpc = "check"
    /\ dpc' = "idle"
    /\ IF ~OutputExists(disk, ThisCall.output_path)
         THEN /\ raised_exc' = <<NoOutput(ThisCall.output_path)>>
              /\ gpc' = "gvr_finally"
              /\ UNCHANGED <<disk, pending, calls>>
       ELSE IF ~OutputHasSize(disk, ThisCall.output_path)
         THEN /\ raised_exc' = <<EmptyOutput(ThisCall.output_path)>>
              /\ gpc' = "gvr_finally"
              /\ UNCHANGED <<disk, pending, calls>>
       ELSE /\ disk' = Remove(disk, {ThisCall.temp_copy[k] : k \in 1..Len(ThisCall.temp_copy)})
            /\ calls' = [calls EXCEPT ![Len(calls)].done = TRUE]
            /\ raised_exc' = raised_exc
            /\ IF gpc = "render_main"
                 THEN /\ gpc' = "render_fc"
                      /\ pending' = sorted(glob(disk', "fc_dir", ext_xml))
                 ELSE /\ gpc' = gpc
                      /\ pending' = Tail(pending)
    /\ tries' = 0
    /\ combined' = <<>>
    /\ warned' = <<>>
    /\ UNCHANGED <<run_mode, src_name, runs, xvfb_proc, stop_calls, tool_status, returned,
                   s3_objects, processed, exit_status, runRest>>

\* line 450: `for sub in (fc_dir, threat_dir)`: fc_dir is done
NextGroup ==
    /\ gpc = "render_fc" /\ dpc = "idle" /\ pending = <<>>
    /\ gpc' = "render_threat"
    /\ pending' = sorted(glob(disk, "threat_dir", ext_xml))
    /\ UNCHANGED <<run_mode, src_name, runs, xvfb_proc, stop_calls, disk, tool_status, calls, dpc, tries,
                   combined, warned, raised_exc, returned, s3_objects, processed, exit_status,
                   runRest>>

\* lines 457-460: pngs and xmls are collected and returned
Collect ==
    /\ gpc = "render_threat" /\ dpc = "idle" /\ pending = <<>>
    /\ returned' = <<[pngs |-> sorted(glob(disk, "out_dir", ext_png)),
                      xmls |-> <<MainFile>> \o sorted(glob(disk, "fc_dir", ext_xml))
                                 \o sorted(glob(disk, "threat_dir", ext_xml))]>>
    /\ gpc' = "gvr_finally"
    /\ UNCHANGED <<run_mode, src_name, runs, xvfb_proc, stop_calls, disk, tool_status, pending, calls,
                   dpc, tries, combined, warned, raised_exc, s3_objects, processed, exit_status,
                   runRest>>

\* lines 461-463: finally: if xvfb_proc is not None: stop_xvfb(xvfb_proc)
GvrFinally ==
    /\ gpc = "gvr_finally"
    /\ gpc' = "gvr_left"
    /\ IF manage_xvfb
         THEN \E b \in StopBehaviours :
                /\ stop_calls' = <<stop_xvfb(b)>>
                /\ xvfb_proc' = stop_xvfb(b).proc
                /\ raised_exc' = IF stop_xvfb(b).raised
                                   THEN <<Exc("OSError", "kill failed")>>
                                   ELSE raised_exc
         ELSE UNCHANGED <<stop_calls, xvfb_proc, raised_exc>>
    /\ UNCHANGED <<run_mode, src_name, runs, disk, tool_status, pending, calls, dpc, tries, combined,
                   warned, returned, s3_objects, processed, exit_status, runRest>>

\* generate_variants_and_render has returned or raised. A direct call ends
\* here; render.py's main goes to its finally (lines 500-503);
\* process_single_version (sync_and_render.py lines 783-812) goes on with the
\* uploads, or catches the exception and returns False.
GvrLeaves ==
    /\ gpc = "gvr_left"
    /\ CASE run_mode = "direct" ->
              /\ gpc' = "exit"
              /\ UNCHANGED <<raised_exc, processed, pending>>
         [] run_mode = "main" ->
              /\ gpc' = "main_finally"
              /\ UNCHANGED <<raised_exc, processed, pending>>
         [] run_mode = "sync" ->
              IF raised_exc # <<>>
                THEN /\ processed' = "False"
                     /\ raised_exc' = <<>>
                     /\ gpc' = "main_finally"
                     /\ pending' = pending
                ELSE /\ gpc' = "upload_images"
                     /\ pending' = returned[1].pngs
                     /\ UNCHANGED <<raised_exc, processed>>
    /\ UNCHANGED <<run_mode, src_name, runs, xvfb_proc, stop_calls, disk, tool_status, calls, dpc, tries,
                   combined, warned, returned, s3_objects, exit_status, runRest>>

\* process_single_version, sync_and_render.py lines 747-757: the version is
\* complete in the bucket and force_rerender is off; nothing is rendered.
RunSkip ==
    /\ gpc = "version"
    /\ TheVersion \in existing_complete /\ ~force_rerender
    /\ processed' = "skipped"
    /\ gpc' = "main_finally"
    /\ UNCHANGED <<run_mode, src_name, runs, xvfb_proc, stop_calls, disk, tool_status, pending,
                   calls, dpc, tries, combined, warned, raised_exc, returned, s3_objects,
                   exit_status, runRest>>

\* lines 759-778: the version is fetched and its document written, or the
\* function returns False
RunFetch ==
    /\ gpc = "version"
    /\ ~(TheVersion \in existing_complete /\ ~force_rerender)
    /\ \E ok \in BOOLEAN :
         IF ok THEN gpc' = "gvr" /\ processed' = processed
               ELSE gpc' = "main_finally" /\ processed' = "False"
    /\ UNCHANGED <<run_mode, src_name, runs, xvfb_proc, stop_calls, disk, tool_status, pending,
                   calls, dpc, tries, combined, warned, raised_exc, returned, s3_objects,
                   exit_status, runRest>>

\* upload_images, lines 482-488: one pass of `for f in files`; what
\* s3.upload_file raises reaches `except Exception` of process_single_version
RunUploadImage ==
    /\ gpc = "upload_images" /\ pending # <<>>
    /\ \E ok \in BOOLEAN :
         IF ok THEN /\ s3_objects' = s3_objects \cup {ImageKey(Head(pending))}
                    /\ pending' = Tail(pending)
                    /\ UNCHANGED <<gpc, processed>>
               ELSE /\ processed' = "False"
                    /\ gpc' = "main_finally"
                    /\ UNCHANGED <<s3_objects, pending>>
    /\ UNCHANGED <<run_mode, src_name, runs, xvfb_proc, stop_calls, disk, tool_status, calls, dpc,
                   tries, combined, warned, raised_exc, returned, exit_status, runRest>>

\* lines 789-792: s3_write_json(..., json_key, tm_json), once upload_images
\* has returned
RunUploadJson ==
    /\ gpc = "upload_images" /\ pending = <<>>
    /\ \E ok \in BOOLEAN :
         IF ok THEN /\ s3_objects' = s3_objects \cup {txt_threatmodel_json}
                    /\ gpc' = "update_manifest"
                    /\ processed' = processed
               ELSE /\ processed' = "False"
                    /\ gpc' = "main_finally"
                    /\ s3_objects' = s3_objects
    /\ UNCHANGED <<run_mode, src_name, runs, xvfb_proc, stop_calls, disk, tool_status, pending,
                   calls, dpc, tries, combined, warned, raised_exc, returned, exit_status,
                   runRest>>

\* lines 794-806: update_manifest_entry, then `return True`
RunUpdateManifest ==
    /\ gpc = "update_manifest"
    /\ \E ok \in BOOLEAN : processed' = IF ok THEN "True" ELSE "False"
    /\ gpc' = "main_finally"
    /\ UNCHANGED <<run_mode, src_name, runs, xvfb_proc, stop_calls, disk, tool_status, pending,
                   calls, dpc, tries, combined, warned, raised_exc, returned, s3_objects,
                   exit_status, runRest>>

\* main: finally: stop_xvfb(xvfb_proc) (render.py lines 502-503,
\* sync_and_render.py lines 864-865), then what main returns: render.py's
\* main returns 1 when generate_variants_and_render raised; the batch main
\* goes on to write the manifest and returns 1 when that raises.
RunFinally ==
    /\ gpc = "main_finally"
    /\ \E b \in StopBehaviours, ok \in BOOLEAN :
         /\ stop_calls' = <<stop_xvfb(b)>>
         /\ xvfb_proc' = stop_xvfb(b).proc
         /\ exit_status' = IF stop_xvfb(b).raised THEN 1
                           ELSE IF run_mode = "main"
                             THEN (IF raised_exc # <<>> THEN 1 ELSE 0)
                           ELSE (IF ok THEN 0 ELSE 1)
    /\ gpc' = "exit"
    /\ UNCHANGED <<run_mode, src_name, runs, disk, tool_status, pending, calls, dpc, tries,
                   combined, warned, raised_exc, returned, s3_objects, processed, runRest>>

\* The workflow runs sync_and_render.py again: a new process and a new
\* TemporaryDirectory, the bucket as the run before left it.
RunAgain ==
    /\ gpc = "exit" /\ run_mode = "sync" /\ runs = "first"
    /\ runs' = "next"
    /\ gpc' = "start"
    /\ xvfb_proc' = "absent"
    /\ stop_calls' = <<>>
    /\ disk' = <<>>
    /\ tool_status' = -1
    /\ pending' = <<>>
    /\ calls' = <<>>
    /\ dpc' = "idle"
    /\ tries' = 0
    /\ combined' = <<>>
    /\ warned' = <<>>
    /\ raised_exc' = <<>>
    /\ returned' = <<>>
    /\ processed' = "pending"
    /\ exit_status' = -1
    /\ UNCHANGED <<run_mode, src_name, s3_objects, runRest>>

RunIdle ==
    /\ run_mode = "off"
    /\ src_name = <<>>
    /\ runs = "none"
    /\ gpc = "off"
    /\ xvfb_proc = "absent"
    /\ stop_calls = <<>>
    /\ disk = <<>>
    /\ tool_status = -1
    /\ pending = <<>>
    /\ calls = <<>>
    /\ dpc = "idle"
    /\ tries = 0
    /\ combined = <<>>
    /\ warned = <<>>
    /\ raised_exc = <<>>
    /\ returned = <<>>
    /\ s3_objects = {}
    /\ processed = "pending"
    /\ exit_status = -1

ToolInit ==
    /\ BatchInit
    /\ NormIdle
    /\ RunIdle
    /\ tpc = "start"
    /\ \E n \in 0..MaxObjects : \E objs \in ObjectSeqs(n) : soup = RawCells \o objs
    /\ validate \in BOOLEAN
    /\ error_list = <<>>
    /\ fcx_tx_values = [FC |-> {}, T |-> {}]
    /\ fc_files = NoFiles
    /\ t_files = NoFiles
    /\ created = <<>>
    /\ exit_code = -1

ToolNext ==
    \/ Validate
    \/ Inventory
    \/ GenerateFCxFiles
    \/ GenerateFCxTyFiles

ToolIdle ==
    /\ tpc = "off"
    /\ soup = <<>>
    /\ validate = FALSE
    /\ error_list = <<>>
    /\ fcx_tx_values = [FC |-> {}, T |-> {}]
    /\ fc_files = NoFiles
    /\ t_files = NoFiles
    /\ created = <<>>
    /\ exit_code = -1

Init == BatchInit /\ ToolIdle /\ NormIdle /\ RunIdle

Next == BatchNext \/ ToolNext

Spec == Init /\ [][Next]_vars

ToolSpec == ToolInit /\ [][ToolNext]_vars

NormInit ==
    /\ BatchInit
    /\ ToolIdle
    /\ RunIdle
    /\ npc = "start"
    /\ src_xml \in SourceDocuments
    /\ dest_xml = <<>>
    /\ again_xml = <<>>
    /\ decompressed = <<>>

NormNext == WriteMain \/ WriteAgain \/ DecompressSource

NormSpec == NormInit /\ [][NormNext]_vars

\* A run starts: the entry point, the name of the source and what an earlier
\* run left on disk (nothing, or its files). The batch run works in a new TemporaryDirectory and on
\* a version with no objects in the bucket.
RunInit ==
    /\ BatchInit
    /\ ToolIdle
    /\ NormIdle
    /\ run_mode \in {"main", "sync", "direct"}
    /\ src_name \in SrcNames(run_mode)
    /\ runs = "first"
    /\ gpc = IF run_mode = "direct" THEN "gvr" ELSE "start"
    /\ xvfb_proc = "absent"
    /\ stop_calls = <<>>
    /\ \E left \in {{}, StaleFiles} :
         disk = IF run_mode = "sync" THEN <<>> ELSE [f \in left |-> OldContent(f)]
    /\ tool_status = -1
    /\ pending = <<>>
    /\ calls = <<>>
    /\ dpc = "idle"
    /\ tries = 0
    /\ combined = <<>>
    /\ warned = <<>>
    /\ raised_exc = <<>>
    /\ returned = <<>>
    /\ s3_objects = {}
    /\ processed = "pending"
    /\ exit_status = -1

RunNext ==
    \/ RunPrepare
    \/ RunStartXvfb
    \/ RunSkip
    \/ RunFetch
    \/ GvrNormalize
    \/ GvrStartXvfb
    \/ GvrRunTool
    \/ ExportCall
    \/ RendererRuns
    \/ ExportCheck
    \/ NextGroup
    \/ Collect
    \/ GvrFinally
    \/ GvrLeaves
    \/ RunUploadImage
    \/ RunUploadJson
    \/ RunUpdateManifest
    \/ RunFinally
    \/ RunAgain

RunSpec == RunInit /\ [][RunNext]_vars

(***************************************************************************)
(*                     Properties of the batch run                         *)
(***************************************************************************)

LastRc == rcs[Len(rcs)]

\* C1: drawio_export invokes the renderer at most 3 times per call; only the
\* last invocation of a call can exit 0 (the first zero exit ends the loop);
\* after a non-zero exit on attempt 1 or 2 the call is back at the renderer
\* with the next attempt; and a call whose renderer exited non-zero twice and
\* then 0, leaving a non-empty output file, returns after those 3 invocations.
C1_RetryLoop ==
    /\ Len(rcs) <= 3
    /\ \A i \in 1..(Len(rcs) - 1) : rcs[i] # 0
    /\ (rcs # <<>> /\ LastRc # 0 /\ Len(rcs) < 3)
          => (epc = "run" /\ attempt = Len(rcs) + 1)
    /\ (rcs # <<>> /\ LastRc = 0) => epc # "run"
    /\ (rcs = <<1, 1, 0>> /\ outFile = "nonempty" /\ epc # "check")
          => (epc = "returned" /\ exc = "none")

C1_Witness == epc = "returned" /\ rcs = <<1, 1, 0>> /\ outFile = "nonempty"

\* C2: once the renderer has exited 0 and the output file is missing or
\* empty, drawio_export is raising its failure, on the attempt that exited 0
\* (which may be the first or the second), and the renderer is not invoked
\* again in this call.
C2_ZeroExitWithoutOutput ==
    (rcs # <<>> /\ LastRc = 0 /\ outFile \in {"missing", "empty"} /\ epc # "check")
        => /\ epc = "raised"
           /\ exc # "none"
           /\ ppc = "handler"
           /\ Len(rcs) = attempt

C2_Witness == epc = "raised" /\ rcs = <<0>> /\ outFile = "empty" /\ attempt < 3

\* C3: a failure raised by drawio_export while a version is processed leaves
\* process_single_version as an exception: that version is never recorded as
\* skipped (process_single_version returning False), after which the batch
\* loop would go on.
C3_HardFailurePropagates ==
    \A v \in Versions : hard[v] => outcome[v] \in {"pending", "raised"}

(***************************************************************************)
(*                    Properties of the variant tool                       *)
(***************************************************************************)

\* The variant documents written so far, of either kind.
WrittenFiles ==
    {fc_files[v] : v \in DOMAIN fc_files} \cup {t_files[v] : v \in DOMAIN t_files}

\* The comma-separated tokens of an attribute, blanks around them removed.
TokenSet(opt) ==
    IF Truthy(opt)
      THEN LET list == Split(opt[1], ",")
           IN  {Strip(list[k]) : k \in 1..Len(list)} \ {<<>>}
      ELSE {}

\* The part of a threat token before its first '_'.
FCPrefix(token) ==
    IF HasChar(token, "_")
      THEN SubSeq(token, 1, (CHOOSE k \in 1..Len(token) :
                               token[k] = "_" /\ \A j \in 1..(k - 1) : token[j] # "_") - 1)
      ELSE token

\* A style that ends with textOpacity=10;opacity=10;
DimmedStyle(style) ==
    /\ style # <<>>
    /\ Len(style[1]) >= 3
    /\ SubSeq(style[1], Len(style[1]) - 2, Len(style[1]))
         = <<"textOpacity=10", "opacity=10", "">>

\* Element i of the variant is the source element with every nested cell dimmed.
DimmedIn(variant, i) ==
    /\ i <= Len(variant)
    /\ variant[i].kind = "object"
    /\ Len(variant[i].cells) = Len(soup[i].cells)
    /\ \A k \in 1..Len(variant[i].cells) :
          DimmedStyle(variant[i].cells[k]) /\ ~DimmedStyle(soup[i].cells[k])

\* Element i of the variant is the source element, untouched.
KeptIn(variant, i) == i <= Len(variant) /\ variant[i] = soup[i]

\* The five keep conditions of the feature-class rule for target x.
FCKeepCondition(x, tag) ==
    \/ x \in TokenSet(tag.feature_class)
    \/ txt_all \in TokenSet(tag.feature_class)
    \/ \E t \in TokenSet(tag.threat) :
          \/ t = txt_all
          \/ FCPrefix(t) = x
          \/ t = x \o txt__all

\* C4: in the feature-class variant for x, every annotated element that meets
\* none of the keep conditions is dimmed (so is an element whose only tag is
\* threat=FCy_all with y different from x).
C4_OthersAreDimmed ==
    \A x \in DOMAIN fc_files : \A i \in ObjectIndexes(soup) :
        ~FCKeepCondition(x, soup[i]) => DimmedIn(fc_files[x], i)

\* C5: in the feature-class variant for x, an annotated element that meets
\* one of the keep conditions is never dimmed: it is in the variant as it is
\* in the source.
C5_KeptAreNotDimmed ==
    \A x \in DOMAIN fc_files : \A i \in ObjectIndexes(soup) :
        FCKeepCondition(x, soup[i]) => KeptIn(fc_files[x], i)

\* A variant for x exists in which one element is kept for its feature_class
\* and another for a threat with FC-prefix x.
C5_Witness ==
    \E x \in DOMAIN fc_files : \E i, j \in ObjectIndexes(soup) :
        /\ x \in TokenSet(soup[i].feature_class)
        /\ TokenSet(soup[j].feature_class) = {}
        /\ \E t \in TokenSet(soup[j].threat) : t # txt_all /\ FCPrefix(t) = x
        /\ KeptIn(fc_files[x], i) /\ KeptIn(fc_files[x], j)

\* The keep condition of the threat rule for target value t_value.
ThreatKeepCondition(t_value, tag) ==
    /\ Truthy(tag.threat)
    /\ \/ t_value \in TokenSet(tag.threat)
       \/ txt_all \in TokenSet(tag.threat)
       \/ (FCPrefix(t_value) \o txt__all) \in TokenSet(tag.threat)

\* C6: in the threat variant for FCx_Ty an annotated element is kept if and
\* only if it has a non-empty threat attribute whose tokens include FCx_Ty,
\* all or FCx_all; otherwise (so whenever it has no threat attribute, whatever
\* its feature_class) it is dimmed.
C6_ThreatKeepRule ==
    \A t \in DOMAIN t_files : \A i \in ObjectIndexes(soup) :
        /\ ThreatKeepCondition(t, soup[i]) => KeptIn(t_files[t], i)
        /\ ~ThreatKeepCondition(t, soup[i]) => DimmedIn(t_files[t], i)

\* A threat variant exists in which an element without threat but with a
\* feature_class is dimmed, and an element is kept.
C6_Witness ==
    \E t \in DOMAIN t_files : \E i, j \in ObjectIndexes(soup) :
        /\ soup[i].threat = <<>>
        /\ Truthy(soup[i].feature_class)
        /\ DimmedIn(t_files[t], i)
        /\ KeptIn(t_files[t], j)

\* C7: in every variant written, of either kind, every raw cell at the top
\* level of the graph is dimmed.
C7_RawCellsDimmed ==
    \A variant \in WrittenFiles : \A i \in CellIndexes(soup) :
        /\ i <= Len(variant)
        /\ variant[i].kind = "mxCell"
        /\ DimmedStyle(variant[i].style)

\* Variants of both kinds have been written for a document with raw cells.
C7_Witness ==
    /\ tpc = "done"
    /\ DOMAIN fc_files # {} /\ DOMAIN t_files # {}
    /\ CellIndexes(soup) # {}

\* Element i of the variant is element i of the source but for the styles.
SameButStyle(variant, i) ==
    /\ variant[i].kind = soup[i].kind
    /\ soup[i].kind = "object" =>
          /\ variant[i].threat = soup[i].threat
          /\ variant[i].feature_class = soup[i].feature_class
          /\ Len(variant[i].cells) = Len(soup[i].cells)

\* C8: every variant holds the elements of the source, with the same threat
\* and feature_class attributes, and get_all_FCx_Tx_values returns for it the
\* FC and T sets it returned for the source.
C8_VariantKeepsTags ==
    \A variant \in WrittenFiles :
        /\ Len(variant) = Len(soup)
        /\ \A i \in 1..Len(soup) : SameButStyle(variant, i)
        /\ get_all_FCx_Tx_values(variant) = fcx_tx_values

\* A variant in which an annotated element is dimmed has been written, and
\* the inventory of the source is not empty.
C8_Witness ==
    /\ fcx_tx_values.FC # {} /\ fcx_tx_values.T # {}
    /\ \E variant \in WrittenFiles : \E i \in ObjectIndexes(soup) : DimmedIn(variant, i)

\* The grammar of the tags: FC<digits>, T<digits>.
IsFCn(s) ==
    Len(s) >= 3 /\ s[1] = "F" /\ s[2] = "C" /\ \A k \in 3..Len(s) : s[k] \in DigitChars

IsTn(s) == Len(s) >= 2 /\ s[1] = "T" /\ \A k \in 2..Len(s) : s[k] \in DigitChars

\* A threat token: FC<digits>_T<digits>, FC<digits>_all or all.
ThreatTokenOk(token) ==
    \/ token = txt_all
    \/ LET parts == Split(token, "_")
       IN  /\ Len(parts) = 2
           /\ IsFCn(parts[1])
           /\ (IsTn(parts[2]) \/ parts[2] = txt_all)

\* A feature_class token: FC<digits> or all.
FeatureClassTokenOk(token) == token = txt_all \/ IsFCn(token)

\* The comma-separated tokens of an attribute's text.
FieldTokens(opt) == Split(Strip(opt[1]), ",")

BadThreatTokens(tag) ==
    IF Truthy(tag.threat)
      THEN {k \in 1..Len(FieldTokens(tag.threat)) : ~ThreatTokenOk(FieldTokens(tag.threat)[k])}
      ELSE {}

BadFeatureClass(tag) ==
    /\ Truthy(tag.feature_class)
    /\ \E k \in 1..Len(FieldTokens(tag.feature_class)) :
          ~FeatureClassTokenOk(FieldTokens(tag.feature_class)[k])

\* C9: under --validate the tool goes past make_validation only if every
\* threat token is FC<digits>_T<digits>, FC<digits>_all or all, and every
\* feature_class token is FC<digits> or all.
C9_AcceptedOnlyIfWellFormed ==
    (validate /\ tpc \in {"validated", "inventoried", "fc_written", "done"})
        => \A i \in ObjectIndexes(soup) :
              BadThreatTokens(soup[i]) = {} /\ ~BadFeatureClass(soup[i])

ViolationCount(tag) ==
    Cardinality(BadThreatTokens(tag)) + (IF BadFeatureClass(tag) THEN 1 ELSE 0)

RECURSIVE TotalViolations(_)
TotalViolations(indexes) ==
    IF indexes = {} THEN 0
    ELSE LET i == CHOOSE k \in indexes : TRUE
         IN  ViolationCount(soup[i]) + TotalViolations(indexes \ {i})

\* C10: make_validation reports as many violations as there are threat
\* tokens that fail the threat grammar plus feature_class fields that fail
\* the feature_class grammar, over all annotated elements.
C10_ViolationCount ==
    (validate /\ tpc # "start")
        => Len(error_list) = TotalViolations(ObjectIndexes(soup))

\* The comma-separated tokens of an attribute, blanks around them removed,
\* the empty ones included.
AllTokens(opt) ==
    IF Truthy(opt)
      THEN LET list == Split(opt[1], ",") IN {Strip(list[k]) : k \in 1..Len(list)}
      ELSE {}

\* The tokens of the threat and feature_class attributes of all elements.
DocumentTokens ==
    UNION {AllTokens(soup[i].threat) \cup AllTokens(soup[i].feature_class)
             : i \in ObjectIndexes(soup)}

Inventoried == tpc \in {"inventoried", "fc_written", "done"}

\* The document whose only annotated element has feature_class="FC1,FC2" and
\* threat="FC1_T1".
IsExampleDocument ==
    /\ Cardinality(ObjectIndexes(soup)) = 1
    /\ \A i \in ObjectIndexes(soup) :
          /\ soup[i].feature_class = <<txt_FC1 \o <<",">> \o txt_FC2>>
          /\ soup[i].threat = <<txt_FC1 \o txt_T1>>

\* C12: the inventory classifies every comma-separated token of the threat
\* and feature_class attributes of every annotated element: a token with '_'
\* is in T (and not in FC), the token all is in neither, any other token is
\* in FC (and not in T), and nothing else is in either set; for the element
\* feature_class="FC1,FC2", threat="FC1_T1" it is FC={FC1,FC2}, T={FC1_T1}.
C12_InventoryClassifies ==
    Inventoried =>
        /\ \A v \in DocumentTokens :
              /\ HasChar(v, "_") => (v \in fcx_tx_values.T /\ v \notin fcx_tx_values.FC)
              /\ v = txt_all => (v \notin fcx_tx_values.T /\ v \notin fcx_tx_values.FC)
              /\ (~HasChar(v, "_") /\ v # txt_all)
                    => (v \in fcx_tx_values.FC /\ v \notin fcx_tx_values.T)
        /\ (fcx_tx_values.T \cup fcx_tx_values.FC) \subseteq DocumentTokens
        /\ IsExampleDocument =>
              /\ fcx_tx_values.FC = {txt_FC1, txt_FC2}
              /\ fcx_tx_values.T = {txt_FC1 \o txt_T1}

\* The inventory of a document with tokens of the three kinds, all among them.
C12_Witness ==
    /\ Inventoried
    /\ txt_all \in DocumentTokens
    /\ fcx_tx_values.FC = {txt_FC1, txt_FC2}
    /\ fcx_tx_values.T = {txt_FC1 \o txt_T1}

\* A fully-qualified threat value: FC<digits>_T<digits>.
IsFCxTy(token) ==
    LET parts == Split(token, "_")
    IN  Len(parts) = 2 /\ IsFCn(parts[1]) /\ IsTn(parts[2])

\* C13: for a document that passed validation, every member of the T set of
\* the inventory is a fully-qualified FCx_Ty value; all and FCx_all are not
\* members.
C13_NoWildcardInInventory ==
    (validate /\ Inventoried) => \A t \in fcx_tx_values.T : IsFCxTy(t)

\* The entries of `created` that lie in directory dir.
CreatedIn(dir) == SelectSeq(created, LAMBDA f : f.dir = dir)

\* <sourceStem>_<value>.xml
VariantName(value) == prefix_service \o <<"_">> \o value \o <<".", "x", "m", "l">>

\* How many files of directory dir were written under the name of value.
TimesWritten(dir, value) ==
    Cardinality({k \in 1..Len(CreatedIn(dir)) : CreatedIn(dir)[k].name = VariantName(value)})

\* FCset united with the FC-prefixes of the T values.
FCTargets == fcx_tx_values.FC \cup {FCPrefix(t) : t \in fcx_tx_values.T}

\* C14: once generate_FCx_files is done, it has written one feature-class
\* variant for each value of FCset united with the FC-prefixes of the T
\* values: each of these values once, and nothing else.
C14_FeatureClassVariants ==
    /\ tpc \in {"fc_written", "done"} =>
          /\ DOMAIN fc_files = FCTargets
          /\ \A v \in FCTargets : TimesWritten("fc_dir", v) = 1
          /\ Len(CreatedIn("fc_dir")) = Cardinality(FCTargets)
    /\ tpc \notin {"fc_written", "done"} => CreatedIn("fc_dir") = <<>>

\* A variant was written for the FC-prefix of a threat that no element
\* carries as a feature_class, and one for a class that is both a
\* feature_class and the prefix of a threat.
C14_Witness ==
    /\ tpc = "fc_written"
    /\ \E t \in fcx_tx_values.T :
          FCPrefix(t) \notin fcx_tx_values.FC /\ FCPrefix(t) \in DOMAIN fc_files
    /\ \E t \in fcx_tx_values.T :
          FCPrefix(t) \in fcx_tx_values.FC /\ FCPrefix(t) \in DOMAIN fc_files

\* A value that ends with _all.
AllSuffixed(token) ==
    Len(token) >= 4 /\ SubSeq(token, Len(token) - 3, Len(token)) = txt__all

\* C15: once generate_FCx_Ty_files is done, it has written for each T value
\* of the form FCx_Ty one threat variant, named <sourceStem>_<Tvalue>.xml,
\* for each all-suffixed T value none, and no file that is not named after
\* a T value.
C15_ThreatVariants ==
    /\ tpc = "done" =>
          /\ \A t \in fcx_tx_values.T :
                /\ IsFCxTy(t) => (TimesWritten("threat_dir", t) = 1 /\ t \in DOMAIN t_files)
                /\ AllSuffixed(t) => (TimesWritten("threat_dir", t) = 0 /\ t \notin DOMAIN t_files)
          /\ \A k \in 1..Len(CreatedIn("threat_dir")) :
                \E t \in fcx_tx_values.T : CreatedIn("threat_dir")[k].name = VariantName(t)
          /\ DOMAIN t_files \subseteq fcx_tx_values.T
    /\ tpc # "done" => CreatedIn("threat_dir") = <<>>

\* The tool is done with a T set that holds a fully-qualified value and an
\* all-suffixed one.
C15_Witness ==
    /\ tpc = "done"
    /\ \E t \in fcx_tx_values.T : IsFCxTy(t) /\ TimesWritten("threat_dir", t) = 1
    /\ \E t \in fcx_tx_values.T : AllSuffixed(t)

(***************************************************************************)
(*                 Properties of write_decompressed_main                   *)
(***************************************************************************)

WroteDest == npc \in {"written", "rewritten"}

\* The <diagram> of the source already holds a graph.
SourceHoldsGraph ==
    /\ src_xml.diagram # <<>>
    /\ \E k \in 1..Len(src_xml.diagram[1].content) :
          src_xml.diagram[1].content[k].item = "graph"

\* C16: a second call, on the document the first call wrote, succeeds and
\* writes that same document; and for a source whose <diagram> already holds
\* a graph the call succeeds and writes the source with nothing changed but
\* compressed="false" on <mxfile> and no compressed attribute on <diagram>
\* (the text written starts with the XML declaration).
C16_Idempotent ==
    /\ npc # "raised_again"
    /\ npc = "rewritten" => again_xml = dest_xml
    /\ (SourceHoldsGraph /\ npc # "start") =>
          /\ WroteDest
          /\ dest_xml = << [src_xml EXCEPT !.decl = TRUE,
                                           !.file_compressed = "false",
                                           !.diagram[1].compressed = "absent"] >>

\* Both calls are done, for a source that holds its graph and carries the
\* two flags, and for one that was encoded.
C16_Witness ==
    /\ npc = "rewritten"
    /\ src_xml.file_compressed = "true"
    /\ src_xml.diagram[1].compressed = "true"
    /\ SourceHoldsGraph
    /\ again_xml = dest_xml

\* C17: the document a successful call wrote has a <diagram> whose content is
\* one graph and no text, compressed="false" on <mxfile> and no compressed
\* attribute on <diagram>.
C17_CanonicalOutput ==
    WroteDest =>
        /\ dest_xml # <<>>
        /\ dest_xml[1].diagram # <<>>
        /\ Len(dest_xml[1].diagram[1].content) = 1
        /\ dest_xml[1].diagram[1].content[1].item = "graph"
        /\ dest_xml[1].file_compressed = "false"
        /\ dest_xml[1].diagram[1].compressed = "absent"

\* The encodings of graph g as the content of a <diagram>: embedded,
\* base64(xml), base64(deflate(percent-encode(xml))).
EncodingsOf(g) ==
    { <<GraphItem(g)>>,
      <<TextItem(B64(Utf8(GraphXml(g))))>>,
      <<TextItem(B64(Deflated(Pct(GraphXml(g)))))>> }

\* The two encoded forms of a nested file whose <diagram> holds g in one of
\* its encodings.
NestedEncodingsOf(g) ==
    UNION { { <<TextItem(B64(Utf8(FileXml(c))))>>,
              <<TextItem(B64(Deflated(Pct(FileXml(c)))))>> } : c \in EncodingsOf(g) }

\* C18: for every graph g and every source whose <diagram> holds g embedded,
\* as base64(xml), as base64(deflate(percent-encode(xml))), or as one of
\* these two encodings of a nested file that holds g in one of the three
\* forms, the call succeeds and the <diagram> written holds exactly g.
C18_DecodesEveryForm ==
    \A g \in Graphs :
        ( /\ npc # "start"
          /\ src_xml.diagram # <<>>
          /\ src_xml.diagram[1].content \in EncodingsOf(g) \cup NestedEncodingsOf(g) )
        => /\ WroteDest
           /\ dest_xml[1].diagram[1].content = <<GraphItem(g)>>

\* The graph with a '%' escape was recovered from a deflated file nested in a
\* deflated payload.
C18_Witness ==
    /\ npc = "written"
    /\ src_xml.diagram[1].content =
          <<TextItem(B64(Deflated(Pct(FileXml(
               <<TextItem(B64(Deflated(Pct(GraphXml("percent")))))>>)))))>>
    /\ dest_xml[1].diagram[1].content = <<GraphItem("percent")>>

\* A payload nested two levels deep.
TwoLevels(g) ==
    <<TextItem(B64(Utf8(FileXml(
         <<TextItem(B64(Utf8(FileXml(
              <<TextItem(B64(Utf8(GraphXml(g))))>>))))>>))))>>

\* The contents of a <diagram> from which no graph can be had: no graph and
\* no text, a text that is not base64 or decodes to no XML, XML without a
\* graph, a nested file without one, and a graph nested two levels deep.
Undecodable ==
    { <<>>,
      <<TextItem(Blank)>>,
      <<TextItem(NotB64)>>,
      <<TextItem(B64(Noise))>>,
      <<TextItem(B64(Utf8(OtherXml)))>>,
      <<TextItem(B64(Deflated(Pct(OtherXml))))>>,
      <<TextItem(B64(Utf8(FileXml(<<>>))))>>,
      <<TextItem(B64(Utf8(FileXml(<<TextItem(NotB64)>>))))>> }
      \cup {TwoLevels(g) : g \in Graphs}

\* C19: for a source whose <diagram> holds no graph and either an empty text
\* or a text from which no graph can be decoded (a payload nested two levels
\* deep among them), the call raises and writes no destination document; and
\* whatever the call writes for a source without an embedded graph holds no
\* text any more.
C19_FailsWithoutGraph ==
    /\ ( /\ npc # "start"
         /\ src_xml.diagram # <<>>
         /\ src_xml.diagram[1].content \in Undecodable )
       => (npc = "raised" /\ dest_xml = <<>>)
    /\ (WroteDest /\ ~SourceHoldsGraph)
       => \A k \in 1..Len(dest_xml[1].diagram[1].content) :
             dest_xml[1].diagram[1].content[k].item # "text"

\* The call raised on a payload nested two levels deep, and wrote nothing.
C19_Witness ==
    /\ npc = "raised"
    /\ dest_xml = <<>>
    /\ src_xml.diagram # <<>>
    /\ src_xml.diagram[1].content = TwoLevels("plain")

(***************************************************************************)
(*            Properties of the batch run with the variant tool            *)
(***************************************************************************)

\* C11: when the variant tool, run with --validate, is past validation of a
\* document in which a threat token or a feature_class field fails the
\* grammar, it has exited with status 1 and has written no variant document;
\* and for a version whose tool run ended with status 1 the renderer is never
\* invoked, and the version is not recorded as processed.
C11_ValidationFailureStopsRendering ==
    /\ (validate /\ tpc \notin {"off", "start"} /\ TotalViolations(ObjectIndexes(soup)) > 0)
          => /\ tpc = "exited"
             /\ exit_code = 1
             /\ fc_files = NoFiles /\ t_files = NoFiles /\ created = <<>>
    /\ \A v \in Versions :
          tool_rc[v] = 1 => (v \notin rendered /\ outcome[v] \in {"pending", "False"})

\* C20: every invocation of the renderer is bounded by a timeout: when the
\* renderer does not exit, the call of drawio_export still goes on, to a
\* retry, a failure or a return.
C20_WedgedRendererTimesOut == wedged => ENABLED Next

(***************************************************************************)
(*                  Properties of the copies (C27)                         *)
(***************************************************************************)

\* A dimming has been applied somewhere in the document.
AnyDimming(doc) ==
    \E i \in 1..Len(doc) :
        IF doc[i].kind = "mxCell"
          THEN DimmedStyle(doc[i].style)
          ELSE \E k \in 1..Len(doc[i].cells) : DimmedStyle(doc[i].cells[k])

\* The variant that the source graph and the target value alone determine.
FCVariantOf(doc, fc_value) ==
    GrayCopy(doc, {i \in ObjectIndexes(doc) : FCx_do_hide(fc_value, doc[i])})

ThreatVariantOf(doc, t_value) ==
    GrayCopy(doc, {i \in ObjectIndexes(doc) : FCx_Ty_do_hide(t_value, doc[i])})

\* C27: once generate_FCx_files and generate_FCx_Ty_files have produced the
\* variants, the source graph has no dimming on any element, and every
\* variant is what the source graph and its own target value determine,
\* whatever variants were written before it.
C27_VariantsAreIndependentCopies ==
    (tpc \in {"fc_written", "done"}) =>
        /\ ~AnyDimming(soup)
        /\ \A fc_value \in DOMAIN fc_files : fc_files[fc_value] = FCVariantOf(soup, fc_value)
        /\ \A t_value \in DOMAIN t_files : t_files[t_value] = ThreatVariantOf(soup, t_value)

\* Two feature-class variants and a threat variant have been written that
\* dim different elements of the same source.
C27_Witness ==
    /\ tpc = "done"
    /\ \E x, y \in DOMAIN fc_files : \E i \in ObjectIndexes(soup) :
          DimmedIn(fc_files[x], i) /\ KeptIn(fc_files[y], i)
    /\ \E t \in DOMAIN t_files : \E i \in ObjectIndexes(soup) :
          DimmedIn(t_files[t], i) /\ \E x \in DOMAIN fc_files : KeptIn(fc_files[x], i)

(***************************************************************************)
(*              The two codecs on the same source (C28)                    *)
(***************************************************************************)

\* Both codecs have worked on the source and write_decompressed_main
\* succeeded.
BothDecoded == dest_xml # <<>> /\ decompressed # <<>>

\* C28: for every source on which write_decompressed_main succeeds,
\* decompress leaves the same content in <diagram> as write_decompressed_main
\* wrote, with compressed="false" on <mxfile> and no compressed attribute on
\* <diagram>, also when the <diagram> of the source already holds a graph.
C28_CodecsAgree ==
    BothDecoded =>
        /\ decompressed[1].diagram # <<>>
        /\ decompressed[1].diagram[1].content = dest_xml[1].diagram[1].content
        /\ decompressed[1].file_compressed = "false"
        /\ decompressed[1].diagram[1].compressed = "absent"
        /\ decompressed[1].file_compressed = dest_xml[1].file_compressed
        /\ decompressed[1].diagram[1].compressed = dest_xml[1].diagram[1].compressed

(***************************************************************************)
(*                  Properties of one pipeline run (RunSpec)               *)
(***************************************************************************)

InputsOf(cs) == {cs[i].input_path : i \in 1..Len(cs)}

\* C21: generate_variants_and_render calls drawio_export for the main
\* document first, at width 1500, and only once normalization has written
\* the main document and the variant tool has exited with status 0; every
\* later call is at width 1200, first for the documents of the feature-class
\* directory, then for those of the threat directory, each group in
\* ascending order of file name; no threat variant is rendered before every
\* feature-class variant was, and when the function returns every variant
\* document has been rendered.
C21_RenderOrder ==
    /\ calls # <<>> =>
         /\ calls[1].input_path = MainFile
         /\ calls[1].width = MAIN_WIDTH
         /\ MainFile \in DOMAIN calls[1].before
         /\ tool_status = 0
    /\ \A i \in 2..Len(calls) :
         /\ calls[i].width = VARIANT_WIDTH
         /\ calls[i].input_path.dir \in {"fc_dir", "threat_dir"}
         /\ calls[i].input_path.dir = "threat_dir" =>
              glob(calls[i].before, "fc_dir", ext_xml) \subseteq InputsOf(SubSeq(calls, 1, i - 1))
    /\ \A i, j \in 2..Len(calls) :
         i < j =>
           /\ calls[i].input_path.dir = "threat_dir" => calls[j].input_path.dir = "threat_dir"
           /\ calls[i].input_path.dir = calls[j].input_path.dir =>
                LexLess(calls[i].input_path.name, calls[j].input_path.name)
    /\ returned # <<>> =>
         glob(disk, "fc_dir", ext_xml) \cup glob(disk, "threat_dir", ext_xml) \subseteq InputsOf(calls)

\* A run that rendered the main document, two feature-class variants and a
\* threat variant, and returned.
C21_Witness ==
    /\ returned # <<>>
    /\ Len(calls) >= 4
    /\ calls[2].input_path.dir = "fc_dir"
    /\ calls[3].input_path.dir = "fc_dir"
    /\ calls[Len(calls)].input_path.dir = "threat_dir"

\* C22: in a run of render.py's main, of sync_and_render.py's main or of
\* generate_variants_and_render with manage_xvfb=True, the renderer is only
\* invoked while the virtual display started by the run is running; a run
\* that started the display has called stop_xvfb when it returns, whether or
\* not a render raised; and stop_xvfb sends terminate first, waits no more
\* than 5 seconds, sends kill exactly when the process did not exit in that
\* time (or the wait could not begin), and raises nothing.
C22_DisplayLifecycle ==
    /\ calls # <<>> => xvfb_proc # "absent"
    /\ dpc # "idle" => xvfb_proc = "running"
    /\ gpc = "exit" /\ xvfb_proc # "absent" => stop_calls # <<>> /\ xvfb_proc # "running"
    /\ stop_calls # <<>> =>
         LET stopped == stop_calls[1]
         IN  /\ stopped.did[1] = "terminate"
             /\ stopped.waited <= XVFB_GRACE_S
             /\ stopped.proc # "exited" <=> stopped.did[Len(stopped.did)] = "kill"
             /\ ~stopped.raised

\* A run in which a render raised and the display, which did not exit within
\* the 5 seconds, was killed.
C22_Witness ==
    /\ gpc = "exit"
    /\ calls # <<>>
    /\ \E i \in 1..Len(calls) : ~calls[i].done
    /\ stop_calls # <<>>
    /\ stop_calls[1].did = <<"terminate", "wait", "kill">>
    /\ stop_calls[1].waited = XVFB_GRACE_S

\* C23: when drawio_export has raised because the renderer exited non-zero
\* in each of its MAX_RETRIES attempts, the exception raised carries the last
\* 2000 characters of the final attempt's combined output without the lines
\* FILTER_PATTERNS matches (stated for a final attempt that printed such a
\* line, so that there is something to carry).
C23_FailureCarriesTail ==
    \A k \in 1..Len(raised_exc) :
        /\ raised_exc[k].what = "export failed after MAX_RETRIES attempts"
        /\ filtered_tail(combined) # <<>>
        => raised_exc[k].output = <<filtered_tail(combined)>>

GeneratedVariants == {f \in DOMAIN disk : disk[f] = "variant_xml"}

\* C26: when generate_variants_and_render has returned, for a source with N
\* variant documents generated in this run, the image list returned holds
\* exactly N+1 images, each the output of a call of this run, and the
\* document list holds exactly the main document and the N variant
\* documents; no file an earlier run left is in either list.
C26_ResultIsThisRun ==
    returned # <<>> =>
        LET pngs == returned[1].pngs
            xmls == returned[1].xmls
        IN  /\ Len(pngs) = Cardinality(GeneratedVariants) + 1
            /\ Items(pngs) = {OutPng(f) : f \in {MainFile} \cup GeneratedVariants}
            /\ Len(xmls) = Cardinality(GeneratedVariants) + 1
            /\ Items(xmls) = {MainFile} \cup GeneratedVariants

\* C29: a call of drawio_export that has returned is one during which the
\* renderer wrote a non-empty file at output_path; in particular, when a
\* non-empty file was at output_path before the call and the renderer exits
\* 0 without writing, the call does not return normally.
C29_SuccessMeansWritten ==
    \A i \in 1..Len(calls) : calls[i].done => calls[i].wrote

\* The keys upload_images writes for the images generate_variants_and_render
\* returned.
ImageKeys == {ImageKey(returned[1].pngs[k]) : k \in 1..Len(returned[1].pngs)}

\* C30: in the batch run over a version that had no objects in the bucket,
\* threatmodel.json is in the bucket only once every image returned by
\* generate_variants_and_render is; so when process_single_version has
\* returned False before the JSON upload, s3_scan_existing_versions does
\* not find the version complete; and the next run skips the version only
\* if the JSON is in the bucket, processing it again otherwise.
C30_JsonAfterImages ==
    /\ runs = "first" /\ txt_threatmodel_json \in s3_objects =>
         returned # <<>> /\ ImageKeys \subseteq s3_objects
    /\ run_mode = "sync" /\ processed = "False" /\ txt_threatmodel_json \notin s3_objects =>
         ~s3_scan_existing_versions(s3_objects)
    /\ runs = "next" /\ txt_threatmodel_json \notin s3_objects =>
         /\ processed # "skipped"
         /\ gpc \notin {"start", "exit"} => existing_complete = {}

\* The first run uploaded the main image and a variant image and failed
\* before the JSON upload; the next run is rendering the version again.
C30_Witness ==
    /\ runs = "next"
    /\ txt_threatmodel_json \notin s3_objects
    /\ Cardinality(s3_objects) >= 2
    /\ \E tail \in s3_objects : EndsWithDfdPng(tail)
    /\ calls # <<>>

(***************************************************************************)
(*              Failures of one version in the batch run (Spec)            *)
(***************************************************************************)

\* C25: in the batch run, when write_decompressed_main raises for a version
\* the exception in flight is its ValueError, and when the variant tool
\* exits non-zero it is run_cmd's CalledProcessError; the handler of
\* process_single_version turns either into the return value False for that
\* version and the batch loop goes on with the next version of the list,
\* with no exception in flight; the manifest write after a version is
\* reached only for a version that returned True, never for one whose tool
\* exited non-zero; and the loop is left before the end of the list only
\* with a version that raised or returned True, never with one that
\* returned False.
C25_FailureDoesNotStopBatch ==
    [][ /\ ppc = "normalize" /\ ppc' = "handler" => exc' = "ValueError"
        /\ ppc = "tool" /\ ppc' = "handler" =>
             exc' = "CalledProcessError" /\ tool_rc'[vi] \notin {-1, 0}
        /\ ppc = "handler" /\ exc \in {"ValueError", "CalledProcessError"} /\ ppc' # "handler" =>
             /\ outcome' = [outcome EXCEPT ![vi] = "False"]
             /\ mpc' = "loop"
             /\ vi' = vi + 1
             /\ exc' = "none"
             /\ xvfb' = "running"
        /\ mpc' = "write_manifest" =>
             outcome'[vi'] = "True" /\ tool_rc'[vi'] \in {-1, 0}
        /\ mpc' \in {"finally", "fatal", "done"} /\ vi' \in Versions /\ mpc # "start" =>
             outcome'[vi'] \in {"raised", "True"}
      ]_vars

\* The tool exited with status 1 for the first version, which returned
\* False; the second version was processed and returned True.
C25_Witness ==
    /\ tool_rc[1] = 1
    /\ outcome[1] = "False"
    /\ tool_rc[2] = 0
    /\ outcome[2] = "True"

=============================================================================
